---- MODULE Spec2Model ----
(***************************************************************************)
(* Model of kaluoji/rag_agent_v0.                                          *)
(*                                                                         *)
(* Part I   the staged ingest pipeline of process_docs_2: the document     *)
(*          extractor, text splitter, chunk processor and data ingester,   *)
(*          the per-document checkpoint file, the quarantine files of      *)
(*          failed chunk insertions, and the orchestrator commands          *)
(*          process / resume / retry-failed.                               *)
(* Part II  OpenAIRateLimiter.wait_if_needed (shared/utils.py).            *)
(* Part III rate_limited_openai_call under its tenacity retry decorator.    *)
(* Part IV  InMemoryResponseCache (backend/agents/response_cache.py).       *)
(* Part V   debug_run_agent and the executed-tool map of the retrieve tool  *)
(*          (backend/agents/ai_expert_v1.py).                              *)
(* Part VI  the turns of a session: MemoryManager and the orchestrator     *)
(*          (backend/agents/memory_manager.py, orchestrator_agent.py).     *)
(* Part VII the body of the retrieve tool: merge, rerank with its cache,   *)
(*          and the token limit of the context.                            *)
(* Part VIII the searches of the retrieve tool as concurrent tasks.        *)
(* Part IX  MemoryManager.update_context_metadata.                         *)
(* Part X   the text splitter: articles and their subdivision              *)
(*          (process_docs_2/_02_text_splitter.py).                         *)
(* Part XI  optimized_prepare_chunk_data, the embeddings of the reranker   *)
(*          (backend/utils/reranking_v1.py).                               *)
(* Part XII cancellation of the caller of a retry loop.                    *)
(***************************************************************************)
EXTENDS Integers, Sequences, FiniteSets, TLC

(***************************************************************************)
(* Bounds of the model.                                                    *)
(***************************************************************************)
\* chunks the splitter produces per document
NumChunks == 2
\* orchestrator commands issued one after another
MaxRuns == 3
\* calls the rate limiter admits per window (rpm_limit of OpenAIRateLimiter)
rpm_limit == 2
\* ticks of the limiter's sliding window of 60 seconds
Window == 2
\* largest jitter of a limiter wait, in ticks
MaxJitter == 1
\* last tick of the clock
MaxTime == 4
\* requests handled by debug_run_agent
MaxRequests == 2
\* entries the response cache holds (max_size of InMemoryResponseCache)
max_size == 2
\* ticks of the response cache's default time to live (default_ttl)
default_ttl == 2
\* lookups in the response cache
MaxCacheGets == 1
MaxCacheSets == 3
MaxCacheTime == 2
MaxTurns == 3
MaxSubQueries == 2
max_tokens == 6
MaxRetrieves == 3
MaxRetrieveTime == 2
rerank_ttl == 1
rerank_max_size == 1
MAX_CHUNKS_TO_KEEP_NORMAL == 2
MAX_CHUNKS_TO_KEEP_REPORTS == 3
MAX_TOTAL_TOKENS == 4
SeparatorTokens == 1
HeaderTokens == 1
\* calls of the retrieve tool within one request
MaxToolCalls == 2

\* calls of update_context_metadata, and the key points it keeps (20 in the code)
MaxUpdates == 3
KeyPointsKept == 2

\* the documents of the text splitter: articles, paragraphs in all and characters
\* of a paragraph; DEFAULT_CHUNK_SIZE (8000) and MIN_CHUNK_SIZE (200) in characters
MaxArticles == 2
MaxParagraphs == 4
MaxParagraphLen == 3
chunk_size == 4
min_chunk_size == 2

\* the chunks of a call of optimized_prepare_chunk_data; the length up to which
\* all chunks go in one batch (10 in the code) and the largest batch (16)
MaxEmbedChunks == 5
OneBatchUpTo == 2
LargestBatch == 2

(***************************************************************************)
(* Program constants.                                                      *)
(***************************************************************************)
MAX_CONCURRENT_DOCUMENTS == 2
OPENAI_RETRY_ATTEMPTS == 5
RERANK_ABOVE == 3

\* max_retries of optimized_prepare_chunk_data
max_retries == 3

\* the files of the input directory, one document per file
Docs == {"d1", "d2"}
Chunks == 1..NumChunks

VARIABLES
    folder,       \* the files of the input directory
    cmd,          \* the orchestrator command in progress, "none" between commands
    runs,         \* commands started so far
    limit,        \* the semaphore size of the command in progress
    pc,           \* per document: where its pipeline stands in this command
    ckpt,         \* per document: the checkpoint file <doc_id>_checkpoint.json
    ing,          \* per document: the locals of DataIngester.process_document
    docRows,      \* per document: its rows in table regulatory_documents
    chunkRows,    \* per document and chunk: its rows in table pd_peru
    quar,         \* the quarantine files under pending_chunks/
    nextTs,       \* the timestamp the next quarantine file is named by
    retryTodo,    \* retry-failed: the files globbed and not yet retried
    retryResult,  \* per document: what the last retry_failed_chunks returned
    resumeStage,  \* per document: current_stage computed by resume
    failedIn,     \* per document: the stage that returned failure in this command
    newRows,      \* rows inserted into the store by the command in progress
    fault,        \* per document: an operation on it failed in this command
    ingestResult, \* per document: what DataIngester.process_document returned
    lastDone,     \* the previous command, "crash" when it was killed
    \* Part II: OpenAIRateLimiter
    now,                 \* time.time(), in ticks
    request_timestamps,  \* self.request_timestamps
    lock,                \* self.lock: its holder, or "free"
    lpc,                 \* per caller: where it stands in wait_if_needed
    wake,                \* per caller: when its asyncio.sleep is over
    admitted,            \* history: the times at which calls were admitted
    \* Part III: rate_limited_openai_call
    rpc,                 \* per task: where its call stands
    attempt_number,      \* per task: tenacity's attempt_number
    invocations,         \* per task: invocations of func in this call
    last_error,          \* per task: the exception of the attempt that just failed
    outcome,             \* per task: what the call gave its caller
    \* Part IV: retrieve_relevant_documentation
    tool_execution_state, \* the module global _tool_execution_state
    current_query_info,   \* the module global _current_query_info
    req,                  \* per request: where debug_run_agent stands
    tool,                 \* per request: its tool call in flight
    returns,              \* per request: history of what its tool calls returned
    requests,             \* calls of debug_run_agent so far
    run_args,             \* per request: user_query and message_history of its call
    \* Part V: InMemoryResponseCache
    response_cache,       \* self._cache
    hits,                 \* self.hits
    misses,               \* self.misses
    cache_sets,           \* history: per key, its last set and whether it was evicted since
    cache_recency,        \* history: the keys in the order of their last use
    last_get,             \* history: the key and the result of the last call of get
    sets,                 \* history: calls of set so far
    \* Part VI: MemoryManager and the turns of a session
    conversation_messages, \* the rows of table conversation_messages of the session
    turn,                  \* per request: where its turn stands
    loaded_history,        \* per request: the message_history its turn loaded
    load_info,             \* history: per request, what its load_messages saw
    turns_started,         \* turns of the session so far
    cached_by,             \* history: the turns whose response was stored in the cache
    answered,              \* history: the turns that returned a response, and their path
    \* Part VII
    retrieve_pc,           \* where the call of the retrieve tool stands
    retrieves,             \* calls of the tool so far
    has_query_info,        \* whether the call has a query_info with entities
    all_chunks,            \* all_chunks of the call
    reranking_cache,       \* the TTLCache reranking_cache: cache and timestamps
    rerank_log,            \* history: how the rerank step of the call went
    context,               \* history: the string the call returned
    \* Part VIII: the searches of one call of the retrieve tool, as tasks
    search_pc,             \* where the searches of the call stand
    table_hits,            \* what each search finds in the table, and query_info.entities
    vector_chunks,         \* vector_chunks of the call
    parallel_results,      \* the result of each complementary search that has finished
    completed,             \* history: the complementary searches in the order they finished
    search_failed,         \* history: the calls that raised an exception
    merged,                \* all_chunks of the call
    \* Part IX: the context metadata of one session
    context_metadata,      \* column context_metadata of the row of the session
    supplied,              \* history: what the calls that returned True were given
    updates,               \* calls of update_context_metadata so far
    \* Part X: the text splitter on one document
    document,              \* the articles of the document: each the lengths of its paragraphs
    final_chunks,          \* final_chunks of _chunk_regulatory_document
    \* Part XI: the chunk embeddings of the reranker
    embed,                 \* the locals of optimized_prepare_chunk_data, and where it stands
    chunk_embeddings,      \* chunk_embeddings: the chunk each embedding is of
    embed_calls,           \* history: calls of embeddings.create so far
    \* Part XII: cancellation
    cancel_requested       \* history: the callers whose task was cancelled

ingestVars == <<folder, cmd, runs, limit, pc, ckpt, ing, docRows, chunkRows, quar, nextTs,
                retryTodo, retryResult, resumeStage, failedIn, newRows, fault,
                ingestResult, lastDone>>

limiterVars == <<now, request_timestamps, lock, lpc, wake, admitted>>
retryVars == <<rpc, attempt_number, invocations, last_error, outcome>>
toolVars == <<tool_execution_state, current_query_info, req, tool, returns, requests,
              run_args>>

cacheVars == <<response_cache, hits, misses, cache_sets, cache_recency, last_get, sets>>
memoryVars == <<conversation_messages, turn, loaded_history, load_info, turns_started,
               cached_by, answered>>

retrieveVars == <<retrieve_pc, retrieves, has_query_info, all_chunks, reranking_cache,
                 rerank_log, context>>

searchVars == <<search_pc, table_hits, vector_chunks, parallel_results, completed,
                search_failed, merged>>

\* the variables of Parts I to VII
baseVars == <<ingestVars, limiterVars, retryVars, toolVars, cacheVars, memoryVars, retrieveVars>>

\* the variables of the parts that model one unit each, Parts VIII and later
metadataVars == <<context_metadata, supplied, updates>>

splitterVars == <<document, final_chunks>>

embedVars == <<embed, chunk_embeddings, embed_calls>>

cancelVars == <<cancel_requested>>

unitVars == <<searchVars, metadataVars, splitterVars, embedVars, cancelVars>>

vars == <<ingestVars, limiterVars, retryVars, toolVars, cacheVars, memoryVars, retrieveVars,
         unitVars>>

(***************************************************************************)
(* ProcessingCheckpoint (shared/models.py).  exists = the file is on disk. *)
(* text_file, chunks_file and processed_file are written together with     *)
(* their flag and are not kept apart from it.                              *)
(***************************************************************************)
NewCheckpoint ==
    [exists |-> FALSE, metadata_extracted |-> FALSE, text_extracted |-> FALSE,
     chunks_created |-> FALSE, chunks_processed |-> FALSE, ingested |-> FALSE,
     document_id_db |-> FALSE, error |-> FALSE, failed_at |-> FALSE,
     completed_at |-> FALSE]

get_current_stage(c) ==
    IF c.error THEN "failed"
    ELSE IF c.ingested THEN "completed"
    ELSE IF c.chunks_processed THEN "chunks_processed"
    ELSE IF c.chunks_created THEN "chunks_created"
    ELSE IF c.text_extracted THEN "text_extracted"
    ELSE IF c.metadata_extracted THEN "metadata_extracted"
    ELSE "not_started"

\* the except branch shared by the four stages: error and failed_at are saved
WithError(c) == [c EXCEPT !.exists = TRUE, !.error = TRUE, !.failed_at = TRUE]

Terminal == {"idle", "done", "failed"}
Active(d) == pc[d] \notin (Terminal \cup {"waiting"})
NumActive == Cardinality({d \in Docs : Active(d)})

NoIng == [i |-> 0, succ |-> 0, failed |-> {}]
NoIngestResult == [returned |-> FALSE, successful_inserts |-> 0, failed_chunks |-> 0]
NoRetry == [called |-> FALSE, total |-> 0, successful_retries |-> 0, still_failing |-> 0]

InitIngest ==
    /\ cmd = "none"
    /\ runs = 0
    /\ limit = 0
    /\ pc = [d \in Docs |-> "idle"]
    /\ ckpt = [d \in Docs |-> NewCheckpoint]
    /\ ing = [d \in Docs |-> NoIng]
    /\ docRows = [d \in Docs |-> 0]
    /\ chunkRows = [d \in Docs |-> [c \in Chunks |-> 0]]
    /\ quar = {}
    /\ nextTs = 1
    /\ retryTodo = {}
    /\ retryResult = [d \in Docs |-> NoRetry]
    /\ resumeStage = [d \in Docs |-> "none"]
    /\ failedIn = [d \in Docs |-> "none"]
    /\ newRows = 0
    /\ fault = [d \in Docs |-> FALSE]
    /\ ingestResult = [d \in Docs |-> NoIngestResult]
    /\ lastDone = "none"

(***************************************************************************)
(* The order of the stages and what follows a stage's result.              *)
(***************************************************************************)
NextStage(s) ==
    CASE s = "extract_meta" -> "extract_insert"
      [] s = "extract_insert" -> "extract_text"
      [] s = "extract_text" -> "split"
      [] s = "split" -> "chunk"
      [] s = "chunk" -> "ingest"
      [] OTHER -> "done"

\* process_document_pipeline raises on a stage's success = False and returns
PipelineAfterMut(s, success) == NextStage(s)
PipelineAfter(s, success) == IF success THEN NextStage(s) ELSE "failed"

\* resume_incomplete_pipelines awaits the remaining stages and ignores their results
ResumeAfter(s, success) == NextStage(s)

After(s, success) ==
    IF cmd = "process" THEN PipelineAfter(s, success) ELSE ResumeAfter(s, success)

\* the first stage resume runs for a checkpoint at current_stage
ResumeFirstMut(stage) ==
    CASE stage \in {"metadata_extracted", "text_extracted"} -> "split"
      [] stage \in {"chunks_created", "chunks_processed"} -> "ingest"
      [] OTHER -> "done"
ResumeFirst(stage) ==
    CASE stage \in {"metadata_extracted", "text_extracted"} -> "split"
      [] stage = "chunks_created" -> "chunk"
      [] stage = "chunks_processed" -> "ingest"
      [] OTHER -> "done"

\* the stage name process_document_pipeline reports as failed_stage
StageName(s) ==
    CASE s \in {"extract_meta", "extract_insert", "extract_text"} -> "document_extraction"
      [] s = "split" -> "text_splitting"
      [] s = "chunk" -> "chunk_processing"
      [] OTHER -> "data_ingestion"

\* a stage of document d returned: the checkpoint it saved and where d goes next
\* ok = FALSE: the operation the stage awaited raised
StageReturns(d, s, c, success, ok) ==
    /\ fault' = [fault EXCEPT ![d] = @ \/ ~ok]
    /\ ckpt' = [ckpt EXCEPT ![d] = c]
    /\ pc' = [pc EXCEPT ![d] = After(s, success)]
    /\ failedIn' = [failedIn EXCEPT ![d] = IF success THEN @ ELSE StageName(s)]

(***************************************************************************)
(* The commands of orchestrator.main.                                      *)
(***************************************************************************)
\* process of a folder of one file: main awaits process_document_pipeline itself
process_document_pipeline ==
    /\ cmd = "none"
    /\ runs < MaxRuns
    /\ Cardinality(folder) = 1
    /\ cmd' = "process"
    /\ runs' = runs + 1
    /\ limit' = 1
    /\ pc' = [d \in Docs |-> IF d \in folder THEN "waiting" ELSE "idle"]
    /\ failedIn' = [d \in Docs |-> "none"]
    /\ resumeStage' = [d \in Docs |-> "none"]
    /\ newRows' = 0
    /\ fault' = [d \in Docs |-> FALSE]
    /\ ingestResult' = [d \in Docs |-> NoIngestResult]
    /\ UNCHANGED <<folder, ckpt, ing, docRows, chunkRows, quar, nextTs, retryTodo,
                   retryResult, lastDone>>
    /\ UNCHANGED <<limiterVars, retryVars, toolVars, cacheVars, memoryVars, retrieveVars, unitVars>>

\* process of several files: every file, under a semaphore of --concurrent slots.
\* The model follows one such command, on a folder not processed before.
process_multiple_documents ==
    /\ cmd = "none"
    /\ runs = 0
    /\ Cardinality(folder) > 1
    /\ cmd' = "process"
    /\ runs' = runs + 1
    /\ \E n \in 1..MAX_CONCURRENT_DOCUMENTS : limit' = n
    /\ pc' = [d \in Docs |-> IF d \in folder THEN "waiting" ELSE "idle"]
    /\ failedIn' = [d \in Docs |-> "none"]
    /\ resumeStage' = [d \in Docs |-> "none"]
    /\ newRows' = 0
    /\ fault' = [d \in Docs |-> FALSE]
    /\ ingestResult' = [d \in Docs |-> NoIngestResult]
    /\ UNCHANGED <<folder, ckpt, ing, docRows, chunkRows, quar, nextTs, retryTodo,
                   retryResult, lastDone>>
    /\ UNCHANGED <<limiterVars, retryVars, toolVars, cacheVars, memoryVars, retrieveVars, unitVars>>

\* resume: the checkpoints that are neither ingested nor in error, one after another
Incomplete(c) ==
    c.exists /\ ~c.ingested /\ ~c.error /\ get_current_stage(c) # "completed"

resume_incomplete_pipelines ==
    /\ cmd = "none"
    /\ runs < MaxRuns
    /\ \E d \in Docs : Incomplete(ckpt[d])
    /\ cmd' = "resume"
    /\ runs' = runs + 1
    /\ limit' = 1
    /\ pc' = [d \in Docs |-> IF Incomplete(ckpt[d]) THEN "waiting" ELSE "idle"]
    /\ resumeStage' = [d \in Docs |->
            IF Incomplete(ckpt[d]) THEN get_current_stage(ckpt[d]) ELSE "none"]
    /\ failedIn' = [d \in Docs |-> "none"]
    /\ newRows' = 0
    /\ fault' = [d \in Docs |-> FALSE]
    /\ ingestResult' = [d \in Docs |-> NoIngestResult]
    /\ UNCHANGED <<folder, ckpt, ing, docRows, chunkRows, quar, nextTs, retryTodo,
                   retryResult, lastDone>>
    /\ UNCHANGED <<limiterVars, retryVars, toolVars, cacheVars, memoryVars, retrieveVars, unitVars>>

\* a pipeline enters the semaphore (process) or its turn of the loop comes (resume)
Acquire(d) ==
    /\ cmd \in {"process", "resume"}
    /\ pc[d] = "waiting"
    /\ NumActive < limit
    /\ pc' = [pc EXCEPT ![d] =
            IF cmd = "process" THEN "extract_meta" ELSE ResumeFirst(resumeStage[d])]
    /\ UNCHANGED <<folder, cmd, runs, limit, ckpt, ing, docRows, chunkRows, quar, nextTs,
                   retryTodo, retryResult, resumeStage, failedIn, newRows, lastDone,
                   fault, ingestResult>>
    /\ UNCHANGED <<limiterVars, retryVars, toolVars, cacheVars, memoryVars, retrieveVars, unitVars>>

(***************************************************************************)
(* Stage 1: DocumentExtractor.process_document.                            *)
(***************************************************************************)
\* extract_document_metadata never raises: on failure it returns minimal metadata
extract_document_metadata(d) ==
    /\ pc[d] = "extract_meta"
    /\ LET c == ckpt[d]
           c2 == IF c.metadata_extracted THEN c
                 ELSE [c EXCEPT !.exists = TRUE, !.metadata_extracted = TRUE]
       IN StageReturns(d, "extract_meta", c2, TRUE, TRUE)
    /\ UNCHANGED <<folder, cmd, runs, limit, ing, docRows, chunkRows, quar, nextTs,
                   retryTodo, retryResult, resumeStage, newRows, lastDone,
                   ingestResult>>
    /\ UNCHANGED <<limiterVars, retryVars, toolVars, cacheVars, memoryVars, retrieveVars, unitVars>>

\* insert_document returns None on failure; the extractor only logs a warning
insert_document(d) ==
    /\ pc[d] = "extract_insert"
    /\ LET c == ckpt[d] IN
       IF c.metadata_extracted /\ ~c.document_id_db
       THEN \E ok \in BOOLEAN :
              IF ok
              THEN /\ docRows' = [docRows EXCEPT ![d] = @ + 1]
                   /\ newRows' = newRows + 1
                   /\ StageReturns(d, "extract_insert",
                                   [c EXCEPT !.document_id_db = TRUE], TRUE, TRUE)
              ELSE /\ StageReturns(d, "extract_insert", c, TRUE, FALSE)
                   /\ UNCHANGED <<docRows, newRows>>
       ELSE /\ StageReturns(d, "extract_insert", c, TRUE, TRUE)
            /\ UNCHANGED <<docRows, newRows>>
    /\ UNCHANGED <<folder, cmd, runs, limit, ing, chunkRows, quar, nextTs,
                   retryTodo, retryResult, resumeStage, lastDone,
                   ingestResult>>
    /\ UNCHANGED <<limiterVars, retryVars, toolVars, cacheVars, memoryVars, retrieveVars, unitVars>>

extract_text(d) ==
    /\ pc[d] = "extract_text"
    /\ LET c == ckpt[d] IN
       IF c.text_extracted
       THEN StageReturns(d, "extract_text", c, TRUE, TRUE)
       ELSE \E ok \in BOOLEAN :
              IF ok
              THEN StageReturns(d, "extract_text", [c EXCEPT !.text_extracted = TRUE], TRUE, TRUE)
              ELSE StageReturns(d, "extract_text", WithError(c), FALSE, FALSE)
    /\ UNCHANGED <<folder, cmd, runs, limit, ing, docRows, chunkRows, quar, nextTs,
                   retryTodo, retryResult, resumeStage, newRows, lastDone,
                   ingestResult>>
    /\ UNCHANGED <<limiterVars, retryVars, toolVars, cacheVars, memoryVars, retrieveVars, unitVars>>

(***************************************************************************)
(* Stage 2: TextSplitter.process_document.                                 *)
(***************************************************************************)
SplitterReadyMut(c) == c.exists
SplitterReady(c) == c.exists /\ c.text_extracted

splitter_process_document(d) ==
    /\ pc[d] = "split"
    /\ LET c == ckpt[d] IN
       IF ~SplitterReady(c) THEN StageReturns(d, "split", c, FALSE, TRUE)
       ELSE IF c.chunks_created THEN StageReturns(d, "split", c, TRUE, TRUE)
       ELSE \E ok \in BOOLEAN :
              IF ok
              THEN StageReturns(d, "split", [c EXCEPT !.chunks_created = TRUE], TRUE, TRUE)
              ELSE StageReturns(d, "split", WithError(c), FALSE, FALSE)
    /\ UNCHANGED <<folder, cmd, runs, limit, ing, docRows, chunkRows, quar, nextTs,
                   retryTodo, retryResult, resumeStage, newRows, lastDone,
                   ingestResult>>
    /\ UNCHANGED <<limiterVars, retryVars, toolVars, cacheVars, memoryVars, retrieveVars, unitVars>>

(***************************************************************************)
(* Stage 3: ChunkProcessor.process_document.  _process_chunks_batch raises *)
(* the first exception of a batch, which the stage's except branch saves.  *)
(***************************************************************************)
ProcessorReady(c) == c.exists /\ c.chunks_created

processor_process_document(d) ==
    /\ pc[d] = "chunk"
    /\ LET c == ckpt[d] IN
       IF ~ProcessorReady(c) THEN StageReturns(d, "chunk", c, FALSE, TRUE)
       ELSE IF c.chunks_processed THEN StageReturns(d, "chunk", c, TRUE, TRUE)
       ELSE \E ok \in BOOLEAN :
              IF ok
              THEN StageReturns(d, "chunk", [c EXCEPT !.chunks_processed = TRUE], TRUE, TRUE)
              ELSE StageReturns(d, "chunk", WithError(c), FALSE, FALSE)
    /\ UNCHANGED <<folder, cmd, runs, limit, ing, docRows, chunkRows, quar, nextTs,
                   retryTodo, retryResult, resumeStage, newRows, lastDone,
                   ingestResult>>
    /\ UNCHANGED <<limiterVars, retryVars, toolVars, cacheVars, memoryVars, retrieveVars, unitVars>>

(***************************************************************************)
(* Stage 4: DataIngester.process_document.  The insertions are awaited one *)
(* by one, so the command can be killed between two of them.               *)
(***************************************************************************)
IngesterReady(c) == c.exists /\ c.chunks_processed

\* checkpoint.ingested = successful_inserts == len(processed_chunks)
IngestedFlagMut(successful_inserts, total) == successful_inserts > 0
IngestedFlag(successful_inserts, total) == successful_inserts = total

\* what process_document appends to failed_chunks: the chunk and its error,
\* and no retry_count.  attempts is history: the failed insertions of the chunk.
FailedChunk(c) ==
    [chunk |-> c, has_retry_count |-> FALSE, retry_count |-> 0, attempts |-> 1]

\* chunk_info.get("retry_count", 0)
GetRetryCount(e) == IF e.has_retry_count THEN e.retry_count ELSE 0

\* what retry_failed_chunks appends to still_failing
StillFailing(e) ==
    [chunk |-> e.chunk, has_retry_count |-> TRUE,
     retry_count |-> GetRetryCount(e) + 1, attempts |-> e.attempts + 1]

\* the guards and the load of the processed chunks
ingester_process_document(d) ==
    /\ pc[d] = "ingest"
    /\ LET c == ckpt[d] IN
       IF ~IngesterReady(c)
       THEN StageReturns(d, "ingest", c, FALSE, TRUE) /\ UNCHANGED ing
       ELSE IF c.ingested
       THEN StageReturns(d, "ingest", c, TRUE, TRUE) /\ UNCHANGED ing
       ELSE \E ok \in BOOLEAN :
              IF ok
              THEN /\ pc' = [pc EXCEPT ![d] = "ingest_loop"]
                   /\ ing' = [ing EXCEPT ![d] = [i |-> 1, succ |-> 0, failed |-> {}]]
                   /\ UNCHANGED <<ckpt, failedIn, fault>>
              ELSE StageReturns(d, "ingest", WithError(c), FALSE, FALSE) /\ UNCHANGED ing
    /\ UNCHANGED <<folder, cmd, runs, limit, docRows, chunkRows, quar, nextTs,
                   retryTodo, retryResult, resumeStage, newRows, lastDone,
                   ingestResult>>
    /\ UNCHANGED <<limiterVars, retryVars, toolVars, cacheVars, memoryVars, retrieveVars, unitVars>>

\* _insert_chunk of the next processed chunk: a row, or an error that is recorded
insert_chunk(d) ==
    /\ pc[d] = "ingest_loop"
    /\ ing[d].i <= NumChunks
    /\ \E ok \in BOOLEAN :
         IF ok
         THEN /\ chunkRows' = [chunkRows EXCEPT ![d][ing[d].i] = @ + 1]
              /\ newRows' = newRows + 1
              /\ ing' = [ing EXCEPT ![d].i = @ + 1, ![d].succ = @ + 1]
              /\ UNCHANGED fault
         ELSE /\ ing' = [ing EXCEPT ![d].i = @ + 1,
                                    ![d].failed = @ \cup {FailedChunk(ing[d].i)}]
              /\ fault' = [fault EXCEPT ![d] = TRUE]
              /\ UNCHANGED <<chunkRows, newRows>>
    /\ UNCHANGED <<folder, cmd, runs, limit, pc, ckpt, docRows, quar, nextTs,
                   retryTodo, retryResult, resumeStage, failedIn, lastDone,
                   ingestResult>>
    /\ UNCHANGED <<limiterVars, retryVars, toolVars, cacheVars, memoryVars, retrieveVars, unitVars>>

\* after the loop: _save_failed_chunks, then the checkpoint is saved
ingester_finish(d) ==
    /\ pc[d] = "ingest_loop"
    /\ ing[d].i > NumChunks
    /\ IF ing[d].failed # {}
       THEN /\ quar' = quar \cup {[doc |-> d, ts |-> nextTs, chunks |-> ing[d].failed]}
            /\ nextTs' = nextTs + 1
       ELSE UNCHANGED <<quar, nextTs>>
    /\ StageReturns(d, "ingest",
                    [ckpt[d] EXCEPT !.ingested = IngestedFlag(ing[d].succ, NumChunks),
                                    !.completed_at = TRUE], TRUE, TRUE)
    /\ ingestResult' = [ingestResult EXCEPT ![d] =
           [returned |-> TRUE, successful_inserts |-> ing[d].succ,
            failed_chunks |-> Cardinality(ing[d].failed)]]
    /\ ing' = [ing EXCEPT ![d] = NoIng]
    /\ UNCHANGED <<folder, cmd, runs, limit, docRows, chunkRows, retryTodo, retryResult,
                   resumeStage, newRows, lastDone>>
    /\ UNCHANGED <<limiterVars, retryVars, toolVars, cacheVars, memoryVars, retrieveVars, unitVars>>

(***************************************************************************)
(* retry-failed: DataIngester.retry_failed_chunks on every quarantine file *)
(* that the glob found.                                                    *)
(***************************************************************************)
retry_failed ==
    /\ cmd = "none"
    /\ runs < MaxRuns
    /\ quar # {}
    /\ cmd' = "retry"
    /\ runs' = runs + 1
    /\ retryTodo' = {f.ts : f \in quar}
    /\ retryResult' = [d \in Docs |-> NoRetry]
    /\ failedIn' = [d \in Docs |-> "none"]
    /\ resumeStage' = [d \in Docs |-> "none"]
    /\ newRows' = 0
    /\ fault' = [d \in Docs |-> FALSE]
    /\ ingestResult' = [d \in Docs |-> NoIngestResult]
    /\ UNCHANGED <<folder, limit, pc, ckpt, ing, docRows, chunkRows, quar, nextTs, lastDone>>
    /\ UNCHANGED <<limiterVars, retryVars, toolVars, cacheVars, memoryVars, retrieveVars, unitVars>>

\* still: the chunks of the file whose insertion fails again
retry_failed_chunks(f, still) ==
    /\ cmd = "retry"
    /\ f \in quar
    /\ f.ts \in retryTodo
    /\ still \subseteq {e.chunk : e \in f.chunks}
    /\ LET ok == {e.chunk : e \in f.chunks} \ still
           still_failing == {StillFailing(e) : e \in {x \in f.chunks : x.chunk \in still}}
       IN /\ chunkRows' = [chunkRows EXCEPT ![f.doc] =
                              [c \in Chunks |-> IF c \in ok THEN @[c] + 1 ELSE @[c]]]
          /\ newRows' = newRows + Cardinality(ok)
          /\ quar' = IF still_failing # {}
                     THEN (quar \ {f}) \cup {[f EXCEPT !.chunks = still_failing]}
                     ELSE quar \ {f}
          /\ retryResult' = [retryResult EXCEPT ![f.doc] =
                 [called |-> TRUE, total |-> Cardinality(f.chunks),
                  successful_retries |-> Cardinality(ok),
                  still_failing |-> Cardinality(still_failing)]]
    /\ retryTodo' = retryTodo \ {f.ts}
    /\ UNCHANGED <<folder, cmd, runs, limit, pc, ckpt, ing, docRows, nextTs,
                   resumeStage, failedIn, lastDone,
                   fault, ingestResult>>
    /\ UNCHANGED <<limiterVars, retryVars, toolVars, cacheVars, memoryVars, retrieveVars, unitVars>>

(***************************************************************************)
(* The end of a command: it returns, or the process is killed.             *)
(***************************************************************************)
CommandOver ==
    IF cmd = "retry" THEN retryTodo = {}
    ELSE cmd \in {"process", "resume"} /\ \A d \in Docs : pc[d] \in Terminal

Return ==
    /\ CommandOver
    /\ cmd' = "none"
    /\ lastDone' = cmd
    /\ pc' = [d \in Docs |-> "idle"]
    /\ UNCHANGED <<folder, runs, limit, ckpt, ing, docRows, chunkRows, quar, nextTs, retryTodo,
                   retryResult, resumeStage, failedIn, newRows,
                   fault, ingestResult>>
    /\ UNCHANGED <<limiterVars, retryVars, toolVars, cacheVars, memoryVars, retrieveVars, unitVars>>

Crash ==
    /\ cmd # "none"
    /\ ~CommandOver
    /\ cmd' = "none"
    /\ lastDone' = "crash"
    /\ pc' = [d \in Docs |-> "idle"]
    /\ ing' = [d \in Docs |-> NoIng]
    /\ retryTodo' = {}
    /\ UNCHANGED <<folder, runs, limit, ckpt, docRows, chunkRows, quar, nextTs,
                   retryResult, resumeStage, failedIn, newRows,
                   fault, ingestResult>>
    /\ UNCHANGED <<limiterVars, retryVars, toolVars, cacheVars, memoryVars, retrieveVars, unitVars>>

(***************************************************************************)
(* Part II: OpenAIRateLimiter (shared/utils.py), one shared instance.      *)
(* Time is counted in ticks; Window ticks stand for the 60 seconds of the  *)
(* sliding window, and the jitter of a wait is a positive number of ticks. *)
(***************************************************************************)
Tasks == {"t1", "t2"}

Jitter == 1..MaxJitter

InitLimiter ==
    /\ now = 0
    /\ request_timestamps = <<>>
    /\ lock = "free"
    /\ lpc = [t \in Tasks |-> "idle"]
    /\ wake = [t \in Tasks |-> 0]
    /\ admitted = <<>>

\* [ts for ts in self.request_timestamps if now - ts < 60]
RecentAt(t, ts) == t - ts < Window

Prune(tss, t) == SelectSeq(tss, LAMBDA ts : RecentAt(t, ts))

\* min(self.request_timestamps)
Oldest(tss) == CHOOSE m \in {tss[i] : i \in 1..Len(tss)} :
                   \A i \in 1..Len(tss) : m <= tss[i]

\* async with self.lock: the body is entered when nobody holds the lock
LockFreeMut(l) == TRUE

LockFree(l) == l = "free"

\* time passes
Tick ==
    /\ now < MaxTime
    /\ now' = now + 1
    /\ UNCHANGED <<request_timestamps, lock, lpc, wake, admitted>>
    /\ UNCHANGED <<ingestVars, retryVars, toolVars, cacheVars, memoryVars, retrieveVars, unitVars>>

\* wait_if_needed up to its return or to its asyncio.sleep: the lock is taken,
\* the old timestamps are dropped, and the call is either registered at once
\* or put to sleep, the lock held, until the oldest timestamp has left the
\* window
EnterLimiter(t) ==
    /\ lpc[t] = "calling"
    /\ LockFree(lock)
    /\ LET pruned == Prune(request_timestamps, now) IN
        IF Len(pruned) >= rpm_limit
        THEN /\ \E j \in Jitter :
                    wake' = [wake EXCEPT ![t] = now + (Window - (now - Oldest(pruned))) + j]
             /\ request_timestamps' = pruned
             /\ lock' = t
             /\ lpc' = [lpc EXCEPT ![t] = "sleeping"]
             /\ UNCHANGED admitted
        ELSE /\ request_timestamps' = Append(pruned, now)
             /\ admitted' = Append(admitted, now)
             /\ lpc' = [lpc EXCEPT ![t] = "admitted"]
             /\ UNCHANGED <<lock, wake>>
    /\ UNCHANGED now

\* wait_if_needed from the end of its sleep: the old timestamps are dropped
\* again, the call is registered and the lock released
LeaveLimiter(t) ==
    /\ lpc[t] = "sleeping"
    /\ now >= wake[t]
    /\ request_timestamps' = Append(Prune(request_timestamps, now), now)
    /\ admitted' = Append(admitted, now)
    /\ lock' = "free"
    /\ lpc' = [lpc EXCEPT ![t] = "admitted"]
    /\ UNCHANGED <<now, wake>>

\* a caller of the limiter alone: it calls wait_if_needed, and calls it again
\* once it has returned
wait_if_needed(t) ==
    /\ lpc[t] \in {"idle", "admitted"}
    /\ lpc' = [lpc EXCEPT ![t] = "calling"]
    /\ UNCHANGED <<now, request_timestamps, lock, wake, admitted>>
    /\ UNCHANGED <<ingestVars, retryVars, toolVars, cacheVars, memoryVars, retrieveVars, unitVars>>

wait_if_needed_enter(t) ==
    /\ EnterLimiter(t)
    /\ UNCHANGED <<ingestVars, retryVars, toolVars, cacheVars, memoryVars, retrieveVars, unitVars>>

wait_if_needed_wake(t) ==
    /\ LeaveLimiter(t)
    /\ UNCHANGED <<ingestVars, retryVars, toolVars, cacheVars, memoryVars, retrieveVars, unitVars>>

(***************************************************************************)
(* Part III: rate_limited_openai_call (shared/utils.py) under its tenacity *)
(* decorator.  Every attempt first passes the limiter of Part II.          *)
(***************************************************************************)
\* what func can raise: a 429 with the provider's hint, a 429 without, other
ErrorKinds == {"429_hint", "429", "other"}

NoError == [kind |-> "none", attempt |-> 0]
NoOutcome == [type |-> "none", attempt |-> 0]

InitRetry ==
    /\ rpc = [t \in Tasks |-> "idle"]
    /\ attempt_number = [t \in Tasks |-> 0]
    /\ invocations = [t \in Tasks |-> 0]
    /\ last_error = [t \in Tasks |-> NoError]
    /\ outcome = [t \in Tasks |-> NoOutcome]

\* stop=stop_after_attempt(OPENAI_RETRY_ATTEMPTS)
stop_after_attemptMut(n) == n > OPENAI_RETRY_ATTEMPTS

stop_after_attempt(n) == n >= OPENAI_RETRY_ATTEMPTS

\* reraise is left at tenacity's default: when the stop condition holds the
\* decorator raises RetryError, which carries the last attempt
RaisedByRetry(t) == [type |-> "RetryError", attempt |-> attempt_number[t]]

\* a task calls the wrapper, once: tenacity begins its first attempt
rate_limited_openai_call(t) ==
    /\ rpc[t] = "idle"
    /\ rpc' = [rpc EXCEPT ![t] = "limiter"]
    /\ attempt_number' = [attempt_number EXCEPT ![t] = 1]
    /\ invocations' = [invocations EXCEPT ![t] = 0]
    /\ last_error' = [last_error EXCEPT ![t] = NoError]
    /\ outcome' = [outcome EXCEPT ![t] = NoOutcome]
    /\ lpc' = [lpc EXCEPT ![t] = "calling"]
    /\ UNCHANGED <<now, request_timestamps, lock, wake, admitted>>
    /\ UNCHANGED <<ingestVars, toolVars, cacheVars, memoryVars, retrieveVars, unitVars>>

\* await openai_limiter.wait_if_needed(), first half
attempt_enter_limiter(t) ==
    /\ rpc[t] = "limiter"
    /\ EnterLimiter(t)
    /\ UNCHANGED <<retryVars, ingestVars, toolVars, cacheVars, memoryVars, retrieveVars, unitVars>>

\* await openai_limiter.wait_if_needed(), after the sleep
attempt_leave_limiter(t) ==
    /\ rpc[t] = "limiter"
    /\ LeaveLimiter(t)
    /\ UNCHANGED <<retryVars, ingestVars, toolVars, cacheVars, memoryVars, retrieveVars, unitVars>>

\* return await func(*args, **kwargs): func returns and so does the wrapper
func_returns(t) ==
    /\ rpc[t] = "limiter"
    /\ lpc[t] = "admitted"
    /\ invocations' = [invocations EXCEPT ![t] = @ + 1]
    /\ outcome' = [outcome EXCEPT ![t] = [type |-> "result", attempt |-> attempt_number[t]]]
    /\ rpc' = [rpc EXCEPT ![t] = "returned"]
    /\ lpc' = [lpc EXCEPT ![t] = "idle"]
    /\ UNCHANGED <<attempt_number, last_error>>
    /\ UNCHANGED <<now, request_timestamps, lock, wake, admitted>>
    /\ UNCHANGED <<ingestVars, toolVars, cacheVars, memoryVars, retrieveVars, unitVars>>

\* func raises: the except branch sleeps on a 429 and raises again
func_raises(t, kind) ==
    /\ rpc[t] = "limiter"
    /\ lpc[t] = "admitted"
    /\ invocations' = [invocations EXCEPT ![t] = @ + 1]
    /\ last_error' = [last_error EXCEPT ![t] = [kind |-> kind, attempt |-> attempt_number[t]]]
    /\ rpc' = [rpc EXCEPT ![t] = IF kind = "other" THEN "raising" ELSE "sleep429"]
    /\ lpc' = [lpc EXCEPT ![t] = "idle"]
    /\ UNCHANGED <<attempt_number, outcome>>
    /\ UNCHANGED <<now, request_timestamps, lock, wake, admitted>>
    /\ UNCHANGED <<ingestVars, toolVars, cacheVars, memoryVars, retrieveVars, unitVars>>

\* the sleep of the 429 branch is over
sleep_429_over(t) ==
    /\ rpc[t] = "sleep429"
    /\ rpc' = [rpc EXCEPT ![t] = "raising"]
    /\ UNCHANGED <<attempt_number, invocations, last_error, outcome>>
    /\ UNCHANGED <<limiterVars, ingestVars, toolVars, cacheVars, memoryVars, retrieveVars, unitVars>>

\* the exception reaches the decorator, which stops or waits for a new attempt
tenacity_after_failure(t) ==
    /\ rpc[t] = "raising"
    /\ IF stop_after_attempt(attempt_number[t])
       THEN /\ outcome' = [outcome EXCEPT ![t] = RaisedByRetry(t)]
            /\ rpc' = [rpc EXCEPT ![t] = "raised"]
       ELSE /\ rpc' = [rpc EXCEPT ![t] = "backoff"]
            /\ UNCHANGED outcome
    /\ UNCHANGED <<attempt_number, invocations, last_error>>
    /\ UNCHANGED <<limiterVars, ingestVars, toolVars, cacheVars, memoryVars, retrieveVars, unitVars>>

\* the wait of wait_exponential is over: the next attempt begins
next_attempt(t) ==
    /\ rpc[t] = "backoff"
    /\ attempt_number' = [attempt_number EXCEPT ![t] = @ + 1]
    /\ rpc' = [rpc EXCEPT ![t] = "limiter"]
    /\ lpc' = [lpc EXCEPT ![t] = "calling"]
    /\ UNCHANGED <<invocations, last_error, outcome>>
    /\ UNCHANGED <<now, request_timestamps, lock, wake, admitted>>
    /\ UNCHANGED <<ingestVars, toolVars, cacheVars, memoryVars, retrieveVars, unitVars>>

(***************************************************************************)
(* Part IV: InMemoryResponseCache (backend/agents/response_cache.py), the   *)
(* one instance get_response_cache() gives.  _cache is a dict: the model   *)
(* keeps its entries in a sequence, in the dict's insertion order.         *)
(***************************************************************************)
CacheQueries == {"gdpr", " GDPR  ", "dora", "mifid"}

\* _generate_hash: md5 of the query in lower case, stripped, blanks collapsed
generate_hash(q) ==
    CASE q \in {"gdpr", " GDPR  "} -> "md5 gdpr"
      [] q = "dora" -> "md5 dora"
      [] OTHER -> "md5 mifid"

CacheKeys == {generate_hash(q) : q \in CacheQueries}

Responses == {"response 1", "response 2"}

\* the ttl argument of set: 0 stands for None
TtlArgs == {0, 1}

NeverSet == [set |-> FALSE, response |-> "none", at |-> 0, ttl |-> 0, evicted |-> FALSE]
NoGet == [key |-> "none", result |-> "None"]

InitCache ==
    /\ response_cache = <<>>
    /\ hits = 0
    /\ misses = 0
    /\ cache_sets = [k \in CacheKeys |-> NeverSet]
    /\ cache_recency = <<>>
    /\ last_get = NoGet
    /\ sets = 0

\* CachedResponse.is_expired
is_expiredMut(e, t) == FALSE

is_expired(e, t) == t > e.cached_at + e.ttl_seconds

\* position of a key in the dict, 0 when it is not there
KeyIndex(entries, k) ==
    IF \E i \in 1..Len(entries) : entries[i].query_hash = k
    THEN CHOOSE i \in 1..Len(entries) : entries[i].query_hash = k
    ELSE 0

\* del d[k]
DelKey(entries, k) == SelectSeq(entries, LAMBDA e : e.query_hash # k)

\* d[k] = e: a key already in the dict keeps its place
PutKey(entries, k, e) ==
    IF KeyIndex(entries, k) = 0 THEN Append(entries, e)
    ELSE [entries EXCEPT ![KeyIndex(entries, k)] = e]

\* min(self._cache.keys(), key=cached_at): the first of the oldest entries
oldest_keyMut(entries) == entries[Len(entries)].query_hash

oldest_key(entries) ==
    LET i == CHOOSE i \in 1..Len(entries) :
                 /\ \A j \in 1..Len(entries) : entries[i].cached_at <= entries[j].cached_at
                 /\ \A j \in 1..(i - 1) : entries[j].cached_at > entries[i].cached_at
    IN entries[i].query_hash

\* _evict_oldest
evict_oldest(entries) ==
    IF entries = <<>> THEN entries ELSE DelKey(entries, oldest_key(entries))

\* history: the keys in the order of their last set or served get
Touch(recency, k) == Append(SelectSeq(recency, LAMBDA x : x # k), k)
Forget(recency, k) == SelectSeq(recency, LAMBDA x : x # k)

KeysOf(entries) == {entries[i].query_hash : i \in 1..Len(entries)}

\* InMemoryResponseCache.get
CacheGet(q) ==
    LET k == generate_hash(q)
        i == KeyIndex(response_cache, k)
    IN
    IF i = 0
    THEN /\ misses' = misses + 1
         /\ last_get' = [key |-> k, result |-> "None"]
         /\ UNCHANGED <<response_cache, hits, cache_recency>>
    ELSE IF is_expired(response_cache[i], now)
    THEN /\ response_cache' = DelKey(response_cache, k)
         /\ misses' = misses + 1
         /\ cache_recency' = Forget(cache_recency, k)
         /\ last_get' = [key |-> k, result |-> "None"]
         /\ UNCHANGED hits
    ELSE /\ hits' = hits + 1
         /\ cache_recency' = Touch(cache_recency, k)
         /\ last_get' = [key |-> k, result |-> response_cache[i].response]
         /\ UNCHANGED <<response_cache, misses>>

\* the keys a step removed from the dict
Lost(before, after) == KeysOf(before) \ KeysOf(after)

\* InMemoryResponseCache.set
CacheSet(q, response, ttl) ==
    LET k == generate_hash(q)
        kept == IF Len(response_cache) >= max_size THEN evict_oldest(response_cache)
                ELSE response_cache
        e == [query_hash |-> k, response |-> response, cached_at |-> now,
              ttl_seconds |-> IF ttl = 0 THEN default_ttl ELSE ttl]
        after == PutKey(kept, k, e)
    IN
    /\ response_cache' = after
    /\ sets' = sets + 1
    /\ cache_sets' = [x \in CacheKeys |->
            IF x = k THEN [set |-> TRUE, response |-> response, at |-> now,
                           ttl |-> e.ttl_seconds, evicted |-> FALSE]
            ELSE IF x \in Lost(response_cache, after)
            THEN [cache_sets[x] EXCEPT !.evicted = TRUE]
            ELSE cache_sets[x]]
    /\ cache_recency' =
            Touch(SelectSeq(cache_recency, LAMBDA x : x \in KeysOf(after)), k)
    /\ UNCHANGED <<hits, misses, last_get>>

\* time passes between the calls of the cache
cache_clock ==
    /\ now < MaxCacheTime
    /\ Tick

\* a caller of the cache looks a query up
cache_get(q) ==
    /\ hits + misses < MaxCacheGets
    /\ CacheGet(q)
    /\ UNCHANGED <<cache_sets, sets>>
    /\ UNCHANGED <<ingestVars, limiterVars, retryVars, toolVars, memoryVars, retrieveVars, unitVars>>

\* the response texts that are stored differ from one call of set to the next
FreshResponse == IF sets % 2 = 0 THEN "response 1" ELSE "response 2"

\* a caller of the cache stores a response
cache_set(q, ttl) ==
    /\ sets < MaxCacheSets
    /\ CacheSet(q, FreshResponse, ttl)
    /\ UNCHANGED <<ingestVars, limiterVars, retryVars, toolVars, memoryVars, retrieveVars, unitVars>>

(***************************************************************************)
(* Part V: the agent (backend/agents/ai_expert_v1.py): debug_run_agent,   *)
(* ai_expert_v1.py): debug_run_agent and the retrieve tool.  The map and   *)
(* _current_query_info are module globals, shared by the requests that the *)
(* server handles concurrently.                                            *)
(***************************************************************************)
Reqs == {"r1", "r2"}
Queries == {"q1", "q2"}

\* hashlib.md5(user_query.encode()).hexdigest()[:8]
query_hash(q) == IF q = "q1" THEN "h1" ELSE "h2"

\* f"{tool_name}_{query_hash}"
ToolKey(q) == <<"retrieve_relevant_documentation", query_hash(q)>>
ToolKeys == {ToolKey(q) : q \in Queries}

\* the strings the tool returns
EJECUTANDO == "EJECUTANDO..."
NO_RESULTS == "No relevant documentation found."
ERROR_RESULT == "Error retrieving documentation: e"
Contexts == {"context 1", "context 2"}
SearchResults == Contexts \cup {NO_RESULTS, ERROR_RESULT}

Absent == "absent"
NoTool == [active |-> FALSE, query |-> "none", query_info |-> "None"]

\* the user queries of the requests
UserQueries == {"gdpr", "dora"}
NoArgs == [user_query |-> "none", message_history |-> FALSE]

InitTool ==
    /\ tool_execution_state = [k \in ToolKeys |-> Absent]
    /\ current_query_info = "None"
    /\ req = [r \in Reqs |-> "idle"]
    /\ tool = [r \in Reqs |-> NoTool]
    /\ returns = [r \in Reqs |-> <<>>]
    /\ requests = 0
    /\ run_args = [r \in Reqs |-> NoArgs]

\* _tool_execution_state = {}
reset_tool_state == [k \in ToolKeys |-> Absent]

\* key in _tool_execution_state
has_tool_been_executed(q) == tool_execution_state[ToolKey(q)] # Absent

\* _tool_execution_state[key]['result']
get_cached_tool_result(q) == tool_execution_state[ToolKey(q)]

\* _tool_execution_state[key] = {'executed_at': ..., 'result': result}
mark_tool_as_executed(q, result) == [tool_execution_state EXCEPT ![ToolKey(q)] = result]

\* debug_run_agent up to the run of the agent: message_history says whether
\* a message history that is not empty was passed
DebugRunAgent(r, q, message_history) ==
    /\ req[r] = "idle"
    /\ requests < MaxRequests
    /\ requests' = requests + 1
    /\ tool_execution_state' = reset_tool_state
    /\ \E qi \in {r, "None"} : current_query_info' = qi
    /\ req' = [req EXCEPT ![r] = "running"]
    /\ returns' = [returns EXCEPT ![r] = <<>>]
    /\ run_args' = [run_args EXCEPT ![r] =
            [user_query |-> q, message_history |-> message_history]]
    /\ UNCHANGED tool

\* the agent calls the tool: a key already in the map gives the stored result
\* back, otherwise the key is stored with the placeholder and the body begins,
\* with the query_info it finds in _current_query_info (the agent passes none)
retrieve_relevant_documentation(r, q) ==
    /\ req[r] = "running"
    /\ ~tool[r].active
    /\ Len(returns[r]) < MaxToolCalls
    /\ IF has_tool_been_executed(q)
       THEN /\ returns' = [returns EXCEPT ![r] =
                    Append(@, [query |-> q, result |-> get_cached_tool_result(q),
                               searched |-> FALSE])]
            /\ UNCHANGED <<tool_execution_state, tool>>
       ELSE /\ tool_execution_state' = mark_tool_as_executed(q, EJECUTANDO)
            /\ tool' = [tool EXCEPT ![r] = [active |-> TRUE, query |-> q,
                                            query_info |-> current_query_info]]
            /\ UNCHANGED returns
    /\ UNCHANGED <<current_query_info, req, requests, run_args>>
    /\ UNCHANGED <<ingestVars, limiterVars, retryVars, cacheVars, memoryVars, retrieveVars, unitVars>>

\* the result of the body is stored in the map when it is a context
StoreResult(q, result) ==
    IF result \in Contexts THEN mark_tool_as_executed(q, result)
    ELSE tool_execution_state

\* the body of the tool ends: with a context, with no result (zero embedding
\* or no chunk found), or in its except branch
retrieve_returns(r, result) ==
    /\ tool[r].active
    /\ tool_execution_state' = StoreResult(tool[r].query, result)
    /\ returns' = [returns EXCEPT ![r] =
            Append(@, [query |-> tool[r].query, result |-> result, searched |-> TRUE])]
    /\ tool' = [tool EXCEPT ![r] = NoTool]
    /\ UNCHANGED <<current_query_info, req, requests, run_args>>
    /\ UNCHANGED <<ingestVars, limiterVars, retryVars, cacheVars, memoryVars, retrieveVars, unitVars>>

\* if (not message_history or len(message_history) == 0)
CachesResponse(r) == ~run_args[r].message_history

\* the run of the agent is over: with a response, which is stored in the
\* response cache when no history was passed, or with an exception
DebugRunAgentEnd(r, response) ==
    /\ req[r] = "running"
    /\ ~tool[r].active
    /\ current_query_info' = "None"
    /\ req' = [req EXCEPT ![r] = "idle"]
    /\ IF response \in Responses /\ CachesResponse(r)
       THEN CacheSet(run_args[r].user_query, response, default_ttl)
       ELSE UNCHANGED cacheVars
    /\ UNCHANGED <<tool_execution_state, tool, returns, requests, run_args>>

\* what ai_expert.run gives: a response or an exception
RunResults == Responses \cup {"exception"}

\* a request without a session: no message history is passed
debug_run_agent(r) ==
    /\ turn[r].phase = "idle"
    /\ \E q \in UserQueries : DebugRunAgent(r, q, FALSE)
    /\ UNCHANGED <<ingestVars, limiterVars, retryVars, cacheVars, memoryVars, retrieveVars, unitVars>>

debug_run_agent_end(r) ==
    /\ turn[r].phase = "idle"
    /\ \E response \in RunResults : DebugRunAgentEnd(r, response)
    /\ UNCHANGED <<ingestVars, limiterVars, retryVars, memoryVars, retrieveVars, unitVars>>

(***************************************************************************)
(* Part VI: the turns of one session.  A turn is process_query of the      *)
(* orchestrator (backend/agents/orchestrator_agent.py) with the            *)
(* MemoryManager (backend/agents/memory_manager.py) of the session; the    *)
(* endpoint runs the turns of concurrent requests on one event loop.       *)
(***************************************************************************)
\* a message: the turn that produced it, its place in the turn, and whether
\* one of its parts is a ToolCallPart or a ToolReturnPart
Message(id, n, has_tool_part) == [turn |-> id, n |-> n, tool |-> has_tool_part]

\* the messages a run of the agent adds: the user request and the final
\* response, with the tool call and its return in between when the tool ran
NewMessages(id, tools) ==
    IF tools
    THEN <<Message(id, 1, FALSE), Message(id, 2, TRUE), Message(id, 3, TRUE),
           Message(id, 4, FALSE)>>
    ELSE <<Message(id, 1, FALSE), Message(id, 4, FALSE)>>

\* len(str(msg.parts)) // 4
msg_tokens(m) == IF m.tool THEN 2 ELSE 1

NoTurn == [phase |-> "idle", id |-> 0, path |-> "none", left |-> 0]
NoLoad == [seen |-> 0, loaded |-> FALSE, whole |-> FALSE]

InitMemory ==
    /\ conversation_messages = <<>>
    /\ turn = [r \in Reqs |-> NoTurn]
    /\ loaded_history = [r \in Reqs |-> <<>>]
    /\ load_info = [r \in Reqs |-> NoLoad]
    /\ turns_started = 0
    /\ cached_by = {}
    /\ answered = {}

Reverse(s) == [i \in 1..Len(s) |-> s[Len(s) + 1 - i]]

\* .order('created_at', desc=True): the rows, latest first
RecordsMut(rows) == rows

Records(rows) == Reverse(rows)

\* for msg in reversed(messages)
BatchOrderMut(messages) == messages

BatchOrder(messages) == Reverse(messages)

\* the messages in the order in which load_messages walks them
RECURSIVE Walk(_)
Walk(records) ==
    IF records = <<>> THEN <<>>
    ELSE BatchOrder(Head(records).message_history) \o Walk(Tail(records))

\* has_tool_part ... continue
WithoutToolParts(messages) == SelectSeq(messages, LAMBDA m : ~m.tool)

\* the messages appended until one would exceed max_tokens
RECURSIVE UpToLimit(_, _, _)
UpToLimit(messages, total_tokens, limit_tokens) ==
    IF messages = <<>> THEN <<>>
    ELSE IF total_tokens + msg_tokens(Head(messages)) > limit_tokens THEN <<>>
    ELSE <<Head(messages)>> \o
         UpToLimit(Tail(messages), total_tokens + msg_tokens(Head(messages)), limit_tokens)

\* MemoryManager.load_messages when the query succeeds
load_messages(rows, limit_tokens) ==
    UpToLimit(WithoutToolParts(Walk(Records(rows))), 0, limit_tokens)

\* whether load_messages reached the end of the rows within max_tokens
LoadsEverything(rows, limit_tokens) ==
    Len(load_messages(rows, limit_tokens)) = Len(WithoutToolParts(Walk(Records(rows))))

\* MemoryManager.save_messages when the insert succeeds: one more row
save_messages(rows, messages, id, seen) ==
    Append(rows, [message_history |-> messages, turn |-> id, seen |-> seen])

\* process_query up to the run of the orchestrator agent: the history is
\* loaded, [] when load_messages fails
process_query(r) ==
    /\ turn[r].phase = "idle"
    /\ req[r] = "idle"
    /\ turns_started < MaxTurns
    /\ turns_started' = turns_started + 1
    /\ turn' = [turn EXCEPT ![r] = [NoTurn EXCEPT !.phase = "planning",
                                                  !.id = turns_started + 1]]
    /\ \E ok \in BOOLEAN :
          /\ loaded_history' = [loaded_history EXCEPT ![r] =
                 IF ok THEN load_messages(conversation_messages, max_tokens) ELSE <<>>]
          /\ load_info' = [load_info EXCEPT ![r] =
                 [seen |-> Len(conversation_messages), loaded |-> ok,
                  whole |-> ok /\ LoadsEverything(conversation_messages, max_tokens)]]
    /\ UNCHANGED <<conversation_messages, cached_by, answered>>
    /\ UNCHANGED <<ingestVars, limiterVars, retryVars, toolVars, cacheVars, retrieveVars, unitVars>>

\* the paths of execute_orchestration_plan that run the compliance agent
Paths == {"standard", "complex", "report"}

\* execute_orchestration_plan up to its first call of debug_run_agent: the
\* standard path passes the loaded history, the sub-queries of a complex
\* query and the content of a report are run without it
execute_orchestration_plan(r, path, n) ==
    /\ turn[r].phase = "planning"
    /\ path = "complex" \/ n = 1
    /\ turn' = [turn EXCEPT ![r].phase = "agent", ![r].path = path, ![r].left = n - 1]
    /\ \E q \in UserQueries :
          DebugRunAgent(r, q, path = "standard" /\ loaded_history[r] # <<>>)
    /\ UNCHANGED <<conversation_messages, loaded_history, load_info, turns_started,
                   cached_by, answered>>
    /\ UNCHANGED <<ingestVars, limiterVars, retryVars, cacheVars, retrieveVars, unitVars>>

\* the next sub-query of a complex query
next_sub_query(r) ==
    /\ turn[r].phase = "sub_queries"
    /\ turn[r].left > 0
    /\ turn' = [turn EXCEPT ![r].phase = "agent", ![r].left = @ - 1]
    /\ \E q \in UserQueries : DebugRunAgent(r, q, FALSE)
    /\ UNCHANGED <<conversation_messages, loaded_history, load_info, turns_started,
                   cached_by, answered>>
    /\ UNCHANGED <<ingestVars, limiterVars, retryVars, cacheVars, retrieveVars, unitVars>>

\* the sub-queries are done: the responses are synthesized, nothing is saved
synthesize(r) ==
    /\ turn[r].phase = "sub_queries"
    /\ turn[r].left = 0
    /\ turn' = [turn EXCEPT ![r] = NoTurn]
    /\ answered' = answered \cup {[turn |-> turn[r].id, path |-> turn[r].path]}
    /\ UNCHANGED <<conversation_messages, loaded_history, load_info, turns_started,
                   cached_by>>
    /\ UNCHANGED <<ingestVars, limiterVars, retryVars, toolVars, cacheVars, retrieveVars, unitVars>>

\* response.all_messages(): the history passed and the messages of the run;
\* tools says whether the run called the retrieve tool
all_messages(r, tools) ==
    (IF turn[r].path = "standard" THEN loaded_history[r] ELSE <<>>)
        \o NewMessages(turn[r].id, tools)

\* debug_run_agent of a turn returns or raises, and the turn goes on from
\* there: the standard path saves all_messages (the insert may fail), the
\* report path saves nothing, an exception ends the turn
agent_returns(r, response, saved, tools) ==
    /\ turn[r].phase = "agent"
    /\ DebugRunAgentEnd(r, response)
    /\ cached_by' =
           IF response \in Responses /\ CachesResponse(r)
           THEN cached_by \cup {[turn |-> turn[r].id, seen |-> load_info[r].seen]}
           ELSE cached_by
    /\ conversation_messages' =
           IF response \in Responses /\ turn[r].path = "standard" /\ saved
           THEN save_messages(conversation_messages, all_messages(r, tools), turn[r].id,
                              load_info[r].seen)
           ELSE conversation_messages
    /\ turn' = [turn EXCEPT ![r] =
           IF response \in Responses /\ turn[r].path = "complex"
           THEN [@ EXCEPT !.phase = "sub_queries"]
           ELSE NoTurn]
    /\ answered' =
           IF response \in Responses /\ turn[r].path # "complex"
           THEN answered \cup {[turn |-> turn[r].id, path |-> turn[r].path]}
           ELSE answered
    /\ UNCHANGED <<loaded_history, load_info, turns_started>>
    /\ UNCHANGED <<ingestVars, limiterVars, retryVars, retrieveVars, unitVars>>

(***************************************************************************)
(* Part VII: the body of retrieve_relevant_documentation                   *)
(* (backend/agents/ai_expert_v1.py): the four searches and their merge,    *)
(* rerank_chunks with its TTLCache (backend/utils/reranking_v1.py), and    *)
(* the token limit of the context.  The calls follow one another.          *)
(***************************************************************************)
ChunkIds == 1..5

\* what each search finds in the table: sets of chunk ids
VectorHits == {{}, {1, 2, 3}}
ClusterHits == SUBSET {4}
Bm25Hits == {{}, {4, 5}}
EntityHits == SUBSET {5}

\* the text of a chunk as a search formats it
ChunkText(id, source) == [id |-> id, source |-> source]

RECURSIVE InOrder(_)
InOrder(ids) ==
    IF ids = {} THEN <<>>
    ELSE LET first == CHOOSE x \in ids : \A y \in ids : x <= y
         IN <<first>> \o InOrder(ids \ {first})

ChunkTexts(ids, source) ==
    [i \in 1..Cardinality(ids) |-> ChunkText(InOrder(ids)[i], source)]

\* if doc_id not in new_matched_ids, with new_matched_ids = matched_ids.copy()
NotMatched(found, matched_ids) == found \ matched_ids

\* all_chunks = vector_chunks + cluster_chunks + bm25_chunks + entity_chunks;
\* the three complementary searches each get the matched_ids of the vector search
MergedChunks(vector, cluster, bm25, entity) ==
    ChunkTexts(vector, "vector")
        \o ChunkTexts(NotMatched(cluster, vector), "cluster")
        \o ChunkTexts(NotMatched(bm25, vector), "bm25")
        \o ChunkTexts(NotMatched(entity, vector), "entity")

NoRerank == [invoked |-> FALSE, max_to_return |-> 0, path |-> "none", age |-> 0]
NoContext == [returned |-> FALSE, tokens |-> 0, truncated |-> FALSE]

InitRetrieve ==
    /\ retrieve_pc = "idle"
    /\ retrieves = 0
    /\ has_query_info = FALSE
    /\ all_chunks = <<>>
    /\ reranking_cache = <<>>
    /\ rerank_log = NoRerank
    /\ context = NoContext

\* the searches and the merge; with no chunk at all the tool returns
\* "No relevant documentation found."
retrieve_search(info, vector, cluster, bm25, entity) ==
    /\ retrieve_pc = "idle"
    /\ retrieves < MaxRetrieves
    /\ info \/ entity = {}
    /\ retrieves' = retrieves + 1
    /\ has_query_info' = info
    /\ all_chunks' = MergedChunks(vector, cluster, bm25, entity)
    /\ retrieve_pc' = IF all_chunks' = <<>> THEN "idle" ELSE "merged"
    /\ rerank_log' = NoRerank
    /\ context' = NoContext
    /\ UNCHANGED reranking_cache
    /\ UNCHANGED <<ingestVars, limiterVars, retryVars, toolVars, cacheVars, memoryVars, unitVars>>

\* generate_cache_key: the reranking query, which the query info extends, and
\* the chunks
generate_cache_key(info, chunks) == [query |-> info, chunks |-> chunks]

\* TTLCache._cleanup_expired
cleanup_expired(entries, t) ==
    SelectSeq(entries, LAMBDA e : ~(t - e.timestamp > rerank_ttl))

EntryIndex(entries, k) ==
    IF \E i \in 1..Len(entries) : entries[i].key = k
    THEN CHOOSE i \in 1..Len(entries) : entries[i].key = k
    ELSE 0

\* TTLCache.get: the cache after the call; an entry that is read gets the
\* current time as its timestamp
TTLCacheGet(entries, k, t) ==
    LET live == cleanup_expired(entries, t)
        i == EntryIndex(live, k)
    IN IF i = 0 THEN live ELSE [live EXCEPT ![i].timestamp = t]

\* the first of the entries with the oldest timestamp
OldestEntry(entries) ==
    CHOOSE i \in 1..Len(entries) :
        /\ \A j \in 1..Len(entries) : entries[i].timestamp <= entries[j].timestamp
        /\ \A j \in 1..(i - 1) : entries[j].timestamp > entries[i].timestamp

\* TTLCache.set
TTLCacheSet(entries, k, value, t) ==
    LET live == cleanup_expired(entries, t)
        room == IF Len(live) >= rerank_max_size
                THEN SelectSeq(live, LAMBDA e : e.key # live[OldestEntry(live)].key)
                ELSE live
        e == [key |-> k, value |-> value, timestamp |-> t, stored_at |-> t]
    IN IF EntryIndex(room, k) = 0 THEN Append(room, e)
       ELSE [room EXCEPT ![EntryIndex(room, k)] = e]

Prefix(s, n) == IF Len(s) > n THEN SubSeq(s, 1, n) ELSE s

\* what adaptive_hybrid_rerank may give for the chunks: an order of them
Rankings(chunks) == {chunks, [i \in 1..Len(chunks) |-> chunks[Len(chunks) + 1 - i]]}

\* how a call of rerank_chunks goes when the cache has no result: the
\* ranking succeeds, the ranking raises and rerank_chunks_with_llm returns,
\* or that raises too
RerankOutcomes == {"ranked", "fallback", "unranked"}

\* the rerank step of the tool: with more than RERANK_ABOVE chunks it calls
\* rerank_chunks, which looks in the cache first
retrieve_rerank(reports, went, ranked) ==
    /\ retrieve_pc = "merged"
    /\ reports => has_query_info
    /\ retrieve_pc' = "reranked"
    /\ IF Len(all_chunks) > RERANK_ABOVE
       THEN LET max_to_return == IF reports THEN MAX_CHUNKS_TO_KEEP_REPORTS
                                 ELSE MAX_CHUNKS_TO_KEEP_NORMAL
                k == generate_cache_key(has_query_info, all_chunks)
                looked == TTLCacheGet(reranking_cache, k, now)
                i == EntryIndex(looked, k)
            IN IF i # 0
               THEN /\ all_chunks' = looked[i].value
                    /\ reranking_cache' = looked
                    /\ rerank_log' = [invoked |-> TRUE, max_to_return |-> max_to_return,
                                      path |-> "cache", age |-> now - looked[i].stored_at]
               ELSE IF went = "ranked"
               THEN /\ all_chunks' = Prefix(ranked, max_to_return)
                    /\ reranking_cache' = TTLCacheSet(looked, k, all_chunks', now)
                    /\ rerank_log' = [invoked |-> TRUE, max_to_return |-> max_to_return,
                                      path |-> "ranked", age |-> 0]
               ELSE /\ all_chunks' = all_chunks
                    /\ reranking_cache' = looked
                    /\ rerank_log' = [invoked |-> TRUE, max_to_return |-> max_to_return,
                                      path |-> went, age |-> 0]
       ELSE UNCHANGED <<all_chunks, reranking_cache, rerank_log>>
    /\ UNCHANGED <<retrieves, has_query_info, context>>
    /\ UNCHANGED <<ingestVars, limiterVars, retryVars, toolVars, cacheVars, memoryVars, unitVars>>

\* count_tokens(chunk)
chunk_tokens(c) == IF c.id % 2 = 1 THEN 2 ELSE 1

RECURSIVE Sum(_)
Sum(counts) == IF counts = <<>> THEN 0 ELSE Head(counts) + Sum(Tail(counts))

\* count_tokens("\n\n---\n\n".join(chunks)), given the tokens of each chunk
joined_tokens(counts) ==
    IF counts = <<>> THEN 0 ELSE Sum(counts) + SeparatorTokens * (Len(counts) - 1)

\* the truncation loop: chunks are taken while they fit, the first that does
\* not fit is cut to the remaining tokens and ends the loop
RECURSIVE truncated_chunks(_, _)
truncated_chunks(counts, accumulated_tokens) ==
    IF counts = <<>> THEN <<>>
    ELSE IF accumulated_tokens + Head(counts) > MAX_TOTAL_TOKENS
    THEN <<MAX_TOTAL_TOKENS - accumulated_tokens>>
    ELSE <<Head(counts)>> \o truncated_chunks(Tail(counts), accumulated_tokens + Head(counts))

\* the tokens of the string the tool returns
combined_text_tokens(chunks, info) ==
    LET counts == [i \in 1..Len(chunks) |-> chunk_tokens(chunks[i])]
        body == IF joined_tokens(counts) > MAX_TOTAL_TOKENS
                THEN joined_tokens(truncated_chunks(counts, 0))
                ELSE joined_tokens(counts)
    IN body + (IF info THEN HeaderTokens ELSE 0)

\* the end of the tool: the chunks are joined, cut to the token limit, and
\* the header of the query analysis is put in front
retrieve_combine ==
    /\ retrieve_pc = "reranked"
    /\ retrieve_pc' = "idle"
    /\ context' = [returned |-> TRUE,
                   tokens |-> combined_text_tokens(all_chunks, has_query_info),
                   truncated |->
                      joined_tokens([i \in 1..Len(all_chunks) |-> chunk_tokens(all_chunks[i])])
                          > MAX_TOTAL_TOKENS]
    /\ UNCHANGED <<retrieves, has_query_info, all_chunks, reranking_cache, rerank_log>>
    /\ UNCHANGED <<ingestVars, limiterVars, retryVars, toolVars, cacheVars, memoryVars, unitVars>>

\* time passes between the steps of the tool and between its calls
retrieve_clock ==
    /\ now < MaxRetrieveTime
    /\ Tick

(***************************************************************************)
(* Part VIII: the searches of retrieve_relevant_documentation as the       *)
(* tasks they are (backend/agents/ai_expert_v1.py): get_embedding, the     *)
(* vector search, then the complementary searches under asyncio.gather,    *)
(* each of which may raise inside its own try, and the merge.              *)
(***************************************************************************)
NoHits == [vector |-> {}, cluster |-> {}, bm25 |-> {}, entity |-> {}, entities |-> FALSE]
NoResults == [t \in {} |-> <<>>]

InitSearch ==
    /\ search_pc = "idle"
    /\ table_hits = NoHits
    /\ vector_chunks = <<>>
    /\ parallel_results = NoResults
    /\ completed = <<>>
    /\ search_failed = {}
    /\ merged = <<>>

\* query_embedding = await get_embedding(...): get_embedding returns the zero
\* vector when the provider call fails, and then the tool returns
\* "No relevant documentation found." without any search
get_embedding(ok, entities, vector, cluster, bm25, entity) ==
    /\ search_pc \in {"idle", "merged", "no_results"}
    /\ entities \/ entity = {}
    /\ table_hits' = [vector |-> vector, cluster |-> cluster, bm25 |-> bm25,
                      entity |-> entity, entities |-> entities]
    /\ search_pc' = IF ok THEN "embedded" ELSE "no_results"
    /\ search_failed' = IF ok THEN {} ELSE {"embedding"}
    /\ vector_chunks' = <<>>
    /\ parallel_results' = NoResults
    /\ completed' = <<>>
    /\ merged' = <<>>
    /\ UNCHANGED <<baseVars, metadataVars, splitterVars, embedVars, cancelVars>>

\* get_vector_chunks: except Exception: return [], set(), set()
get_vector_chunks(fails) ==
    /\ search_pc = "embedded"
    /\ vector_chunks' = IF fails THEN <<>> ELSE ChunkTexts(table_hits.vector, "vector")
    /\ search_failed' = IF fails THEN search_failed \cup {"vector"} ELSE search_failed
    /\ search_pc' = "searching"
    /\ UNCHANGED <<table_hits, parallel_results, completed, merged>>
    /\ UNCHANGED <<baseVars, metadataVars, splitterVars, embedVars, cancelVars>>

\* matched_ids of the vector search
MatchedIds(chunks) == {chunks[i].id : i \in 1..Len(chunks)}

\* tasks = [get_cluster_chunks(...), get_bm25_chunks(...)], and
\* get_entity_based_chunks(...) when query_info has entities
tasks ==
    IF table_hits.entities THEN <<"cluster", "bm25", "entity">> ELSE <<"cluster", "bm25">>

TaskNames == {tasks[i] : i \in 1..Len(tasks)}

\* what a complementary search finds; the cluster search looks into the
\* cluster_ids of the vector results
Found(t) ==
    IF t = "cluster" /\ vector_chunks = <<>> THEN {} ELSE table_hits[t]

\* what a complementary search returns: the empty list when it raised
TaskResult(t, fails) ==
    IF fails THEN <<>>
    ELSE ChunkTexts(NotMatched(Found(t), MatchedIds(vector_chunks)), t)

task_returns(t, fails) ==
    /\ search_pc = "searching"
    /\ t \in TaskNames \ DOMAIN parallel_results
    /\ parallel_results' = [u \in DOMAIN parallel_results \cup {t} |->
                               IF u = t THEN TaskResult(t, fails) ELSE parallel_results[u]]
    /\ completed' = Append(completed, t)
    /\ search_failed' = IF fails THEN search_failed \cup {t} ELSE search_failed
    /\ UNCHANGED <<search_pc, table_hits, vector_chunks, merged>>
    /\ UNCHANGED <<baseVars, metadataVars, splitterVars, embedVars, cancelVars>>

get_cluster_chunks(fails) == task_returns("cluster", fails)
get_bm25_chunks(fails) == task_returns("bm25", fails)
get_entity_based_chunks(fails) == task_returns("entity", fails)

RECURSIVE Joined(_, _)
Joined(order, results) ==
    IF order = <<>> THEN <<>> ELSE results[Head(order)] \o Joined(Tail(order), results)

gatherMut(ts, results, finished) == Joined(finished, results)

\* parallel_results = await asyncio.gather(*tasks): the results in the order
\* of the tasks
gather(ts, results, finished) == Joined(ts, results)

SearchOutcomeMut(chunks, failed) ==
    IF chunks = <<>> \/ failed # {} THEN "no_results" ELSE "merged"

\* if not all_chunks: return "No relevant documentation found."
SearchOutcome(chunks, failed) ==
    IF chunks = <<>> THEN "no_results" ELSE "merged"

\* all_chunks = vector_chunks + cluster_chunks + bm25_chunks + entity_chunks
merge_chunks ==
    /\ search_pc = "searching"
    /\ DOMAIN parallel_results = TaskNames
    /\ merged' = vector_chunks \o gather(tasks, parallel_results, completed)
    /\ search_pc' = SearchOutcome(merged', search_failed)
    /\ UNCHANGED <<table_hits, vector_chunks, parallel_results, completed, search_failed>>
    /\ UNCHANGED <<baseVars, metadataVars, splitterVars, embedVars, cancelVars>>


(***************************************************************************)
(* Part IX: MemoryManager.update_context_metadata                          *)
(* (backend/agents/memory_manager.py) on one session.  Lists that          *)
(* the code passes through set() are sets here.                            *)
(***************************************************************************)
Topics == {"GDPR", "DORA"}
Entities == {"DPO"}
Regulations == {"2016/679"}

\* the key points a call is given: count of them, told apart by the call
KeyPoints(call, count) == [i \in 1..count |-> [call |-> call, i |-> i]]

NoMetadata == [topics |-> {}, entities |-> {}, regulations |-> {}, key_points |-> <<>>]

\* session_info.metadata.get('context_metadata', {}): get_session_info returns
\* column metadata of the row, which create_session fills and which only the
\* summary writes again, with conversation_summary and summary_generated_at
current_metadata == NoMetadata

InitMetadata ==
    /\ context_metadata = NoMetadata
    /\ supplied = NoMetadata
    /\ updates = 0

\* existing_points[-20:]
Last(points, n) ==
    IF Len(points) <= n THEN points ELSE SubSeq(points, Len(points) - n + 1, Len(points))

\* the dict the call stores: the fields the call was given are merged into the
\* dict it read, the other fields stay as read
Updated(read, topics, entities, regulations, key_points) ==
    [topics |-> read.topics \cup topics,
     entities |-> read.entities \cup entities,
     regulations |-> read.regulations \cup regulations,
     key_points |-> IF key_points = <<>> THEN read.key_points
                    ELSE Last(read.key_points \o key_points, KeyPointsKept)]

\* update(...).execute() raises: the call returns False
update_context_metadata(topics, entities, regulations, count, stored) ==
    /\ updates < MaxUpdates
    /\ updates' = updates + 1
    /\ LET key_points == KeyPoints(updates', count)
       IN IF stored
          THEN /\ context_metadata' =
                     Updated(current_metadata, topics, entities, regulations, key_points)
               /\ supplied' = [topics |-> supplied.topics \cup topics,
                               entities |-> supplied.entities \cup entities,
                               regulations |-> supplied.regulations \cup regulations,
                               key_points |-> supplied.key_points \o key_points]
          ELSE UNCHANGED <<context_metadata, supplied>>
    /\ UNCHANGED <<baseVars, searchVars, splitterVars, embedVars, cancelVars>>


(***************************************************************************)
(* Part X: TextSplitter._chunk_regulatory_document and _subdivide_article  *)
(* (process_docs_2/_02_text_splitter.py).  An article is the sequence of   *)
(* the lengths of its paragraphs; a chunk names the paragraphs it holds.   *)
(***************************************************************************)
\* shared/config.py: ALLOW_ARTICLE_SUBDIVISION = False
ALLOW_ARTICLE_SUBDIVISION == FALSE

\* the two characters of "\n\n" between paragraphs, on the scale of chunk_size
BreakLen == 1

Articles == UNION {[1..n -> 1..MaxParagraphLen] : n \in 1..MaxParagraphs}

RECURSIVE Paragraphs(_)
Paragraphs(doc) == IF doc = <<>> THEN 0 ELSE Len(Head(doc)) + Paragraphs(Tail(doc))

Documents ==
    {doc \in UNION {[1..n -> Articles] : n \in 1..MaxArticles} :
        Paragraphs(doc) <= MaxParagraphs}

InitSplitter ==
    /\ document = <<>>
    /\ final_chunks = <<>>

\* len() of paragraphs first..last of an article joined by "\n\n"
RECURSIVE JoinedLen(_, _, _)
JoinedLen(article, first, last) ==
    IF first > last THEN 0
    ELSE IF first = last THEN article[first]
    ELSE article[first] + BreakLen + JoinedLen(article, first + 1, last)

\* len(article["content"])
ContentLen(article) == JoinedLen(article, 1, Len(article))

ArticleChunk(a, first, last, is_subdivision) ==
    [article |-> a, paragraphs |-> [i \in 1..(last - first + 1) |-> first + i - 1],
     is_subdivision |-> is_subdivision]

\* the loop of _subdivide_article from paragraph para on, current_chunk being
\* paragraphs first..para-1, and the last chunk after the loop
RECURSIVE SubdivideFrom(_, _, _, _)
SubdivideFrom(a, article, first, para) ==
    LET current == JoinedLen(article, first, para - 1)
    IN IF para > Len(article)
       THEN IF first < para /\ current >= min_chunk_size
            THEN <<ArticleChunk(a, first, para - 1, TRUE)>>
            ELSE <<>>
       ELSE IF current + article[para] > chunk_size /\ current >= min_chunk_size
            THEN <<ArticleChunk(a, first, para - 1, TRUE)>>
                     \o SubdivideFrom(a, article, para, para + 1)
            ELSE SubdivideFrom(a, article, first, para + 1)

subdivide_article(a, article) == SubdivideFrom(a, article, 1, 1)

create_article_chunk(a, article) == <<ArticleChunk(a, 1, Len(article), FALSE)>>

\* the loop over the articles: if len(article["content"]) > self.chunk_size
RECURSIVE ChunksFrom(_, _)
ChunksFrom(doc, a) ==
    IF a > Len(doc) THEN <<>>
    ELSE (IF ContentLen(doc[a]) > chunk_size
          THEN subdivide_article(a, doc[a])
          ELSE create_article_chunk(a, doc[a]))
             \o ChunksFrom(doc, a + 1)

chunk_regulatory_document(doc) ==
    /\ document' = doc
    /\ final_chunks' = ChunksFrom(doc, 1)
    /\ UNCHANGED <<baseVars, searchVars, metadataVars, embedVars, cancelVars>>


(***************************************************************************)
(* Part XI: optimized_prepare_chunk_data (backend/utils/reranking_v1.py),  *)
(* the embeddings of the chunks to rerank, batch by batch.  A chunk is its *)
(* position in the input, from 1.                                          *)
(***************************************************************************)
NoEmbed == [pc |-> "idle", chunks |-> 0, step |-> 0, BATCH_SIZE |-> 0, i |-> 0,
            first |-> 0, last |-> 0, retry_count |-> 0]

InitEmbed ==
    /\ embed = NoEmbed
    /\ chunk_embeddings = <<>>
    /\ embed_calls = 0

Min(a, b) == IF a <= b THEN a ELSE b
Max(a, b) == IF a >= b THEN a ELSE b

\* if len(chunks) <= 10: BATCH_SIZE = len(chunks)
\* else: BATCH_SIZE = min(16, len(chunks) // 2)
InitialBatchSize(n) ==
    IF n <= OneBatchUpTo THEN n ELSE Min(LargestBatch, n \div 2)

\* the call, up to the loop; range(0, len(chunks), BATCH_SIZE) takes its step
\* from BATCH_SIZE as it is now
optimized_prepare_chunk_data(n) ==
    /\ embed.pc \in {"idle", "returned"}
    /\ embed' = [pc |-> "for", chunks |-> n, step |-> InitialBatchSize(n),
                 BATCH_SIZE |-> InitialBatchSize(n), i |-> 0, first |-> 0, last |-> 0,
                 retry_count |-> 0]
    /\ chunk_embeddings' = <<>>
    /\ embed_calls' = 0
    /\ UNCHANGED <<baseVars, searchVars, metadataVars, splitterVars, cancelVars>>

\* one embedding for each chunk of first..last
Embeddings(first, last) ==
    [k \in 1..(last - first + 1) |-> [chunk |-> first + k - 1, zero |-> FALSE]]

\* the head of the for loop: batch = chunks[i:i+BATCH_SIZE], success = False,
\* and the test of the while loop; past the last batch the function returns
for_batch ==
    /\ embed.pc = "for"
    /\ IF embed.i >= embed.chunks
       THEN /\ embed' = [embed EXCEPT !.pc = "returned"]
            /\ UNCHANGED embed_calls
       ELSE IF embed.retry_count < max_retries
       THEN /\ embed' = [embed EXCEPT !.pc = "create", !.first = embed.i + 1,
                            !.last = Min(embed.i + embed.BATCH_SIZE, embed.chunks)]
            /\ embed_calls' = embed_calls + 1
       ELSE /\ embed' = [embed EXCEPT !.i = embed.i + embed.step,
                            !.first = embed.i + 1,
                            !.last = Min(embed.i + embed.BATCH_SIZE, embed.chunks)]
            /\ UNCHANGED embed_calls
    /\ UNCHANGED chunk_embeddings
    /\ UNCHANGED <<baseVars, searchVars, metadataVars, splitterVars, cancelVars>>

\* embeddings.create(input=batch) returns: the batch is done
create_returns ==
    /\ embed.pc = "create"
    /\ chunk_embeddings' = chunk_embeddings \o Embeddings(embed.first, embed.last)
    /\ embed' = [embed EXCEPT !.pc = "for", !.i = embed.i + embed.step]
    /\ UNCHANGED embed_calls
    /\ UNCHANGED <<baseVars, searchVars, metadataVars, splitterVars, cancelVars>>

\* embeddings.create(input=batch) raises: retry_count += 1, and the chunks of
\* the batch one by one when it has reached max_retries, the sleep otherwise
create_raises ==
    /\ embed.pc = "create"
    /\ IF embed.retry_count + 1 >= max_retries
       THEN /\ embed' = [embed EXCEPT !.pc = "single", !.retry_count = @ + 1]
            /\ embed_calls' = embed_calls + 1
       ELSE /\ embed' = [embed EXCEPT !.pc = "sleep", !.retry_count = @ + 1]
            /\ UNCHANGED embed_calls
    /\ UNCHANGED chunk_embeddings
    /\ UNCHANGED <<baseVars, searchVars, metadataVars, splitterVars, cancelVars>>

\* the sleep is over: BATCH_SIZE = max(1, BATCH_SIZE // 2), and the while loop
\* calls embeddings.create again with the same batch
sleep_over ==
    /\ embed.pc = "sleep"
    /\ embed' = [embed EXCEPT !.pc = "create", !.BATCH_SIZE = Max(1, @ \div 2)]
    /\ embed_calls' = embed_calls + 1
    /\ UNCHANGED chunk_embeddings
    /\ UNCHANGED <<baseVars, searchVars, metadataVars, splitterVars, cancelVars>>

\* for chunk in batch: embeddings.create(input=chunk), a vector of zeros when
\* it raises; after the last chunk success = True
single_create(ok) ==
    /\ embed.pc = "single"
    /\ chunk_embeddings' = Append(chunk_embeddings, [chunk |-> embed.first, zero |-> ~ok])
    /\ IF embed.first < embed.last
       THEN /\ embed' = [embed EXCEPT !.first = @ + 1]
            /\ embed_calls' = embed_calls + 1
       ELSE /\ embed' = [embed EXCEPT !.pc = "for", !.i = embed.i + embed.step]
            /\ UNCHANGED embed_calls
    /\ UNCHANGED <<baseVars, searchVars, metadataVars, splitterVars, cancelVars>>


(***************************************************************************)
(* Part XII: the task that awaits rate_limited_openai_call (Part III) or   *)
(* optimized_prepare_chunk_data (Part XI) is cancelled.  asyncio raises    *)
(* CancelledError, a BaseException, at the await the task is suspended in. *)
(***************************************************************************)
InitCancel == cancel_requested = {}

retry_if_exception_typeMut(kind) == TRUE

\* retry=retry_if_exception_type((TimeoutError, Exception)): what tenacity
\* retries; the other exceptions leave the wrapper as they are
retry_if_exception_type(kind) == kind \in ErrorKinds

\* the caller of rate_limited_openai_call is cancelled while waiting for the
\* limiter or in it, in func, in the sleep of the 429 branch, or in the wait
\* between attempts, which is tenacity's own.  except Exception does not
\* catch the CancelledError and async with gives the lock back.
cancel(t) ==
    /\ rpc[t] \in {"limiter", "sleep429", "backoff"}
    /\ t \notin cancel_requested
    /\ cancel_requested' = cancel_requested \cup {t}
    /\ lpc' = [lpc EXCEPT ![t] = "idle"]
    /\ lock' = IF lock = t THEN "free" ELSE lock
    /\ IF rpc[t] # "backoff" /\ retry_if_exception_type("CancelledError")
       THEN /\ rpc' = [rpc EXCEPT ![t] = "raising"]
            /\ last_error' = [last_error EXCEPT
                                 ![t] = [kind |-> "CancelledError",
                                         attempt |-> attempt_number[t]]]
            /\ UNCHANGED outcome
       ELSE /\ rpc' = [rpc EXCEPT ![t] = "cancelled"]
            /\ outcome' = [outcome EXCEPT
                              ![t] = [type |-> "CancelledError",
                                      attempt |-> attempt_number[t]]]
            /\ UNCHANGED last_error
    /\ UNCHANGED <<attempt_number, invocations>>
    /\ UNCHANGED <<now, request_timestamps, wake, admitted>>
    /\ UNCHANGED <<ingestVars, toolVars, cacheVars, memoryVars, retrieveVars>>
    /\ UNCHANGED <<searchVars, metadataVars, splitterVars, embedVars>>

\* the caller of optimized_prepare_chunk_data is cancelled in embeddings.create
\* or in the sleep before a retry: neither except Exception catches it
embed_cancel ==
    /\ embed.pc \in {"create", "sleep", "single"}
    /\ "embed" \notin cancel_requested
    /\ cancel_requested' = cancel_requested \cup {"embed"}
    /\ embed' = [embed EXCEPT !.pc = "cancelled"]
    /\ UNCHANGED <<chunk_embeddings, embed_calls>>
    /\ UNCHANGED <<baseVars, searchVars, metadataVars, splitterVars>>

(***************************************************************************)
(* Specifications.  Each follows one part of the program; the other parts  *)
(* stay as they are after construction.                                    *)
(***************************************************************************)
InitUnits == InitSearch /\ InitMetadata /\ InitSplitter /\ InitEmbed
             /\ InitCancel

InitRest ==
    /\ InitLimiter /\ InitRetry /\ InitTool /\ InitCache /\ InitMemory /\ InitRetrieve
    /\ InitUnits

\* a folder of one file: every command, and the process may be killed
Init == InitIngest /\ folder = {"d1"} /\ InitRest

Next ==
    \/ process_document_pipeline
    \/ resume_incomplete_pipelines
    \/ retry_failed
    \/ \E d \in Docs : Acquire(d)
    \/ \E d \in Docs : extract_document_metadata(d)
    \/ \E d \in Docs : insert_document(d)
    \/ \E d \in Docs : extract_text(d)
    \/ \E d \in Docs : splitter_process_document(d)
    \/ \E d \in Docs : processor_process_document(d)
    \/ \E d \in Docs : ingester_process_document(d)
    \/ \E d \in Docs : insert_chunk(d)
    \/ \E d \in Docs : ingester_finish(d)
    \/ \E f \in quar : \E still \in SUBSET Chunks : retry_failed_chunks(f, still)
    \/ Return
    \/ Crash

Spec == Init /\ [][Next]_vars

\* a folder of two files, processed concurrently
InitFolder == InitIngest /\ folder = Docs /\ InitRest

NextFolder ==
    \/ process_multiple_documents
    \/ \E d \in Docs : Acquire(d)
    \/ \E d \in Docs : extract_document_metadata(d)
    \/ \E d \in Docs : insert_document(d)
    \/ \E d \in Docs : extract_text(d)
    \/ \E d \in Docs : splitter_process_document(d)
    \/ \E d \in Docs : processor_process_document(d)
    \/ \E d \in Docs : ingester_process_document(d)
    \/ \E d \in Docs : insert_chunk(d)
    \/ \E d \in Docs : ingester_finish(d)
    \/ Return

SpecFolder == InitFolder /\ [][NextFolder]_vars

(***************************************************************************)
(* Specification with the scheduling the event loop gives: a ready         *)
(* pipeline step is eventually run.                                        *)
(***************************************************************************)
SpecFolderFair == SpecFolder /\ WF_vars(NextFolder)

\* the limiter under callers that call wait_if_needed again and again
NextLimiter ==
    \/ Tick
    \/ \E t \in Tasks : wait_if_needed(t)
    \/ \E t \in Tasks : wait_if_needed_enter(t)
    \/ \E t \in Tasks : wait_if_needed_wake(t)

SpecLimiter == Init /\ [][NextLimiter]_vars

\* tasks that call rate_limited_openai_call concurrently
NextRetry ==
    \/ Tick
    \/ \E t \in Tasks : rate_limited_openai_call(t)
    \/ \E t \in Tasks : attempt_enter_limiter(t)
    \/ \E t \in Tasks : attempt_leave_limiter(t)
    \/ \E t \in Tasks : func_returns(t)
    \/ \E t \in Tasks : \E kind \in ErrorKinds : func_raises(t, kind)
    \/ \E t \in Tasks : sleep_429_over(t)
    \/ \E t \in Tasks : tenacity_after_failure(t)
    \/ \E t \in Tasks : next_attempt(t)

SpecRetry == Init /\ [][NextRetry]_vars

\* requests that run the agent and its retrieve tool
NextAgent ==
    \/ \E r \in Reqs : debug_run_agent(r)
    \/ \E r \in Reqs : \E q \in Queries : retrieve_relevant_documentation(r, q)
    \/ \E r \in Reqs : \E result \in SearchResults : retrieve_returns(r, result)
    \/ \E r \in Reqs : debug_run_agent_end(r)

SpecAgent == Init /\ [][NextAgent]_vars

\* callers of the response cache, and time
NextCache ==
    \/ cache_clock
    \/ \E q \in CacheQueries : cache_get(q)
    \/ \E q \in CacheQueries : \E ttl \in TtlArgs : cache_set(q, ttl)

SpecCache == Init /\ [][NextCache]_vars

\* the turns of one session, handled concurrently; what the retrieve tool
\* does during a run is left to SpecAgent
NextSession ==
    \/ \E r \in Reqs : process_query(r)
    \/ \E r \in Reqs : \E path \in Paths : \E n \in 1..MaxSubQueries :
          execute_orchestration_plan(r, path, n)
    \/ \E r \in Reqs : next_sub_query(r)
    \/ \E r \in Reqs : synthesize(r)
    \/ \E r \in Reqs : \E response \in RunResults : \E saved, tools \in BOOLEAN :
          agent_returns(r, response, saved, tools)

SpecSession == Init /\ [][NextSession]_vars

\* calls of the retrieve tool, one after the other, and time
NextRetrieve ==
    \/ retrieve_clock
    \/ \E info \in BOOLEAN : \E vector \in VectorHits : \E cluster \in ClusterHits :
          \E bm25 \in Bm25Hits : \E entity \in EntityHits :
             retrieve_search(info, vector, cluster, bm25, entity)
    \/ \E reports \in BOOLEAN : \E went \in RerankOutcomes :
          \E ranked \in Rankings(all_chunks) : retrieve_rerank(reports, went, ranked)
    \/ retrieve_combine

SpecRetrieve == Init /\ [][NextRetrieve]_vars

\* the searches of calls of the retrieve tool, one call after the other
NextSearch ==
    \/ \E ok, entities \in BOOLEAN : \E vector \in VectorHits : \E cluster \in ClusterHits :
          \E bm25 \in Bm25Hits : \E entity \in EntityHits :
             get_embedding(ok, entities, vector, cluster, bm25, entity)
    \/ \E fails \in BOOLEAN : get_vector_chunks(fails)
    \/ \E fails \in BOOLEAN : get_cluster_chunks(fails)
    \/ \E fails \in BOOLEAN : get_bm25_chunks(fails)
    \/ \E fails \in BOOLEAN : get_entity_based_chunks(fails)
    \/ merge_chunks

SpecSearch == Init /\ [][NextSearch]_vars

\* calls of update_context_metadata on one session
NextMetadata ==
    \E topics \in SUBSET Topics : \E entities \in SUBSET Entities :
       \E regulations \in SUBSET Regulations : \E count \in 0..KeyPointsKept :
          \E stored \in BOOLEAN :
             update_context_metadata(topics, entities, regulations, count, stored)

SpecMetadata == Init /\ [][NextMetadata]_vars

\* the text splitter on one document after the other
NextSplitter == \E doc \in Documents : chunk_regulatory_document(doc)

SpecSplitter == Init /\ [][NextSplitter]_vars

\* calls of optimized_prepare_chunk_data, one after the other
NextEmbed ==
    \/ \E n \in 1..MaxEmbedChunks : optimized_prepare_chunk_data(n)
    \/ for_batch
    \/ create_returns
    \/ create_raises
    \/ sleep_over
    \/ \E ok \in BOOLEAN : single_create(ok)

SpecEmbed == Init /\ [][NextEmbed]_vars

\* the two retry loops and the cancellation of their caller.  The loops are
\* of two programs, the ingest pipeline and the backend: a behaviour follows
\* one of them.  Task t1 calls rate_limited_openai_call while task t2 uses
\* the limiter.
IngestRuns == rpc["t1"] # "idle" \/ lpc["t2"] # "idle" \/ now # 0
BackendRuns == embed.pc # "idle"

NextCancel ==
    \/ /\ ~BackendRuns
       /\ \/ Tick
          \/ rate_limited_openai_call("t1")
          \/ attempt_enter_limiter("t1")
          \/ attempt_leave_limiter("t1")
          \/ func_returns("t1")
          \/ \E kind \in ErrorKinds : func_raises("t1", kind)
          \/ sleep_429_over("t1")
          \/ tenacity_after_failure("t1")
          \/ next_attempt("t1")
          \/ cancel("t1")
          \/ wait_if_needed("t2")
          \/ wait_if_needed_enter("t2")
          \/ wait_if_needed_wake("t2")
    \/ /\ ~IngestRuns
       /\ \/ \E n \in 1..MaxEmbedChunks : optimized_prepare_chunk_data(n)
          \/ for_batch
          \/ create_returns
          \/ create_raises
          \/ sleep_over
          \/ \E ok \in BOOLEAN : single_create(ok)
          \/ embed_cancel

SpecCancel == Init /\ [][NextCancel]_vars

(***************************************************************************)
(* Claims about the ingest pipeline.                                       *)
(***************************************************************************)
AllRowsOnce(d) == \A c \in Chunks : chunkRows[d][c] = 1

\* C1: a second process run on an unchanged folder, after a first process run
\* that ran to its end with whatever outcome, inserts no row into the store.
C1_SecondRunInsertsNothing ==
    (cmd = "process" /\ lastDone = "process" /\ CommandOver) => newRows = 0

\* C2: while a document has quarantined chunks it is not ingested, and once
\* retry_failed_chunks has inserted every quarantined chunk of a document its
\* quarantine file is gone and its checkpoint has ingested = true.
C2_RetryCompletesDocument ==
    \A d \in Docs :
        /\ (\E f \in quar : f.doc = d) => ~ckpt[d].ingested
        /\ ( /\ retryResult[d].called
             /\ retryResult[d].still_failing = 0
             /\ ~\E f \in quar : f.doc = d )
           => ckpt[d].ingested

FlagChain(c) ==
    /\ c.text_extracted => c.metadata_extracted
    /\ c.chunks_created => c.text_extracted
    /\ c.chunks_processed => c.chunks_created
    /\ c.ingested => c.chunks_processed

NoFlagCleared(c, c2) ==
    /\ c.metadata_extracted => c2.metadata_extracted
    /\ c.text_extracted => c2.text_extracted
    /\ c.chunks_created => c2.chunks_created
    /\ c.chunks_processed => c2.chunks_processed
    /\ c.ingested => c2.ingested

\* C3: every checkpoint written with no error set has its flags in lifecycle
\* order (a later flag implies the earlier ones), and the write clears no flag
\* that the checkpoint it replaces had set.
C3_FlagsMonotonic ==
    [][\A d \in Docs :
          (ckpt'[d] # ckpt[d] /\ ~ckpt'[d].error)
              => (FlagChain(ckpt'[d]) /\ NoFlagCleared(ckpt[d], ckpt'[d]))]_vars

\* a document written through all five flags with no error, the last of them
\* after the process had been killed and the pipeline resumed
C3_Witness ==
    \E d \in Docs : ckpt[d].ingested /\ ~ckpt[d].error /\ lastDone = "crash"

\* C4: when DataIngester.process_document has attempted every chunk, the
\* checkpoint has ingested = true exactly if no insertion failed, and
\* completed_at is set.
C4_IngestedIffAllInserted ==
    \A d \in Docs :
        ingestResult[d].returned
            => /\ ckpt[d].ingested <=> (ingestResult[d].failed_chunks = 0)
               /\ ckpt[d].completed_at

\* an ingest that attempted every chunk, with one insertion failed and one not
C4_Witness ==
    \E d \in Docs :
        /\ ingestResult[d].returned
        /\ ingestResult[d].failed_chunks > 0
        /\ ingestResult[d].successful_inserts > 0
        /\ ~ckpt[d].ingested

\* C5: a checkpoint left at chunks_created (chunks_processed not yet set) by a
\* killed run, picked up by resume: when resume is done with the document and
\* no operation on it failed, it is ingested and each of its chunks has
\* exactly one row.
C5_ResumeFromChunksCreated ==
    \A d \in Docs :
        (cmd = "resume" /\ resumeStage[d] = "chunks_created" /\ pc[d] = "done"
            /\ ~fault[d])
        => (ckpt[d].ingested /\ AllRowsOnce(d))

C5_Witness ==
    \E d \in Docs :
        /\ cmd = "resume" /\ lastDone = "crash"
        /\ resumeStage[d] = "chunks_created" /\ pc[d] = "done" /\ ~fault[d]
        /\ ckpt[d].ingested /\ AllRowsOnce(d)

\* C6: every entry of a quarantine file carries a retry_count equal to the
\* number of failed insertion attempts of its chunk: 1 when process_document
\* writes it, and one more with each retry_failed_chunks that fails again.
C6_RetryCountCountsFailures ==
    \A f \in quar : \A e \in f.chunks :
        e.has_retry_count /\ e.retry_count = e.attempts

\* C7: in a process run over several documents, a document one of whose
\* stages returned failure has error and failed_at in its checkpoint and runs
\* no later stage; and every document of the run reaches its own outcome.
C7_Stopped ==
    \A d \in Docs :
        failedIn[d] # "none"
            => /\ pc[d] \in {"failed", "idle"}
               /\ ckpt[d].error /\ ckpt[d].failed_at

C7_FailureStopsOnlyThatDocument ==
    /\ []C7_Stopped
    /\ \A d \in Docs : (pc[d] = "waiting") ~> (pc[d] \in {"done", "failed"})

\* one document failed in chunk processing while the other was ingested
C7_Witness ==
    /\ cmd = "process"
    /\ failedIn["d1"] = "chunk_processing" /\ pc["d1"] = "failed"
    /\ pc["d2"] = "done" /\ ckpt["d2"].ingested

(***************************************************************************)
(* Claims about the rate limiter and the retry wrapper.                    *)
(***************************************************************************)
\* admitted calls before the i-th that are within the window at its admission
AdmittedBefore(i) == {k \in 1..(i - 1) : RecentAt(admitted[i], admitted[k])}

\* C8: whatever the interleaving of the callers, every call is admitted at a
\* moment when fewer than rpm_limit calls were admitted within the window
\* before it, so no window holds more than rpm_limit admitted calls.
C8_AdmitsBelowLimit ==
    \A i \in 1..Len(admitted) : Cardinality(AdmittedBefore(i)) < rpm_limit

\* a call was admitted as the last the window allows, after an earlier window
\* had been filled, and now a caller sleeps with the lock while another waits
\* for the lock
C8_Witness ==
    /\ \E i \in 1..Len(admitted) :
            /\ i > rpm_limit
            /\ Cardinality(AdmittedBefore(i)) = rpm_limit - 1
    /\ \E t \in Tasks : lpc[t] = "sleeping" /\ lock = t
    /\ \E t \in Tasks : lpc[t] = "calling"

\* C9 as stated: func is invoked at most 5 times per call of the wrapper, a
\* successful attempt is the last one and its result is returned, and after
\* 5 failed attempts the caller gets the exception of the last attempt.
C9_ReraisesLastError ==
    \A t \in Tasks :
        /\ invocations[t] <= OPENAI_RETRY_ATTEMPTS
        /\ rpc[t] = "returned" =>
                outcome[t] = [type |-> "result", attempt |-> invocations[t]]
        /\ rpc[t] = "raised" =>
                /\ invocations[t] = OPENAI_RETRY_ATTEMPTS
                /\ outcome[t] = [type |-> last_error[t].kind, attempt |-> invocations[t]]

\* C9 amended: func is invoked at most 5 times per call of the wrapper, a
\* successful attempt is the last one and its result is returned, and after
\* 5 failed attempts the caller gets a RetryError that carries the last
\* attempt, not the exception of that attempt itself.
C9_RaisesRetryError ==
    \A t \in Tasks :
        /\ invocations[t] <= OPENAI_RETRY_ATTEMPTS
        /\ rpc[t] = "returned" =>
                outcome[t] = [type |-> "result", attempt |-> invocations[t]]
        /\ rpc[t] = "raised" =>
                /\ invocations[t] = OPENAI_RETRY_ATTEMPTS
                /\ last_error[t].attempt = OPENAI_RETRY_ATTEMPTS
                /\ outcome[t] = [type |-> "RetryError", attempt |-> invocations[t]]

\* one call gave up after its last attempt failed, another call returned
C9_Witness ==
    /\ \E t \in Tasks : rpc[t] = "raised" /\ last_error[t].attempt = OPENAI_RETRY_ATTEMPTS
    /\ \E t \in Tasks : rpc[t] = "returned"

(***************************************************************************)
(* Claims about the retrieve tool.                                         *)
(***************************************************************************)
\* C10: in a request that runs alone, every retrieve call after the first
\* with the same query returns the string the first one returned, and does
\* not run the searches.
C10_SecondCallReturnsFirst ==
    requests = 1 =>
        \A r \in Reqs : \A i, j \in 1..Len(returns[r]) :
            (i < j /\ returns[r][i].query = returns[r][j].query) =>
                /\ returns[r][j].result = returns[r][i].result
                /\ ~returns[r][j].searched

\* C11: the executed-tool map behaves as a map of the request: a retrieve
\* call of a request runs the searches exactly when the request has made no
\* earlier call with that query, whatever another request does meanwhile (a
\* call that searches again had its entry cleared by the other request, a
\* first call that does not search read an entry the other request wrote).
C11_MapIsPerRequest ==
    \A r \in Reqs : \A j \in 1..Len(returns[r]) :
        returns[r][j].searched <=>
            ~\E i \in 1..(j - 1) : returns[r][i].query = returns[r][j].query

\* C12: the turns of a session load and save one after the other: every row
\* was saved by a turn that had seen, when it loaded the history, every row
\* saved before it
C12_SavesSerializedPerSession ==
    \A k \in 1..Len(conversation_messages) : conversation_messages[k].seen = k - 1

\* the messages of the rows in the order in which they were saved
RECURSIVE SavedOrder(_)
SavedOrder(rows) ==
    IF rows = <<>> THEN <<>>
    ELSE Head(rows).message_history \o SavedOrder(Tail(rows))

\* C13: a load that max_tokens did not cut short gives the messages of the
\* rows it saw in the order in which they were saved, rows in the order of
\* their saving and each row in its own order, the messages with tool parts
\* left out
C13_LoadsInSavedOrder ==
    \A r \in Reqs :
        load_info[r].whole =>
            loaded_history[r] =
                WithoutToolParts(SavedOrder(SubSeq(conversation_messages, 1, load_info[r].seen)))

\* C17: every response stored in the response cache comes from a turn that
\* began when the session had no saved history
C17_CachedOnlyWithoutHistory == \A c \in cached_by : c.seen = 0

\* C14: no chunk id appears more than once in the merged list of the four
\* searches
C14_MergedChunksDistinct ==
    retrieve_pc = "merged" =>
        \A i, j \in 1..Len(all_chunks) : all_chunks[i].id = all_chunks[j].id => i = j

\* C15: the string a call returns has at most MAX_TOTAL_TOKENS tokens
C15_ContextWithinTokenLimit == context.returned => context.tokens <= MAX_TOTAL_TOKENS

\* C16: when rerank_chunks was called, at most max_to_return chunks are left
\* after the rerank step, whichever way rerank_chunks took
C16_RerankKeepsAtMostMax ==
    (retrieve_pc = "reranked" /\ rerank_log.invoked) =>
        Len(all_chunks) <= rerank_log.max_to_return

\* C20: a result that rerank_chunks takes from its cache was stored at most
\* rerank_ttl ago
C20_CachedRerankWithinTtl ==
    rerank_log.path = "cache" => rerank_log.age <= rerank_ttl

\* C21: every turn that returned a response through the compliance agent,
\* on the standard path or on the path of a complex query, has its messages
\* in a row of the session
C21_AnsweredTurnIsSaved ==
    \A a \in answered :
        a.path \in {"standard", "complex"} =>
            \E k \in 1..Len(conversation_messages) : conversation_messages[k].turn = a.turn

\* the chunks of one search in a merged list
FromSearch(chunks, t) == SelectSeq(chunks, LAMBDA c : c.source = t)

\* the result of a complementary search of the call, empty when it was not run
ResultOf(t) == IF t \in DOMAIN parallel_results THEN parallel_results[t] ELSE <<>>

SearchesOver == search_pc \in {"merged", "no_results"}

\* C22: a complementary search that raised contributes no chunk, the chunks of
\* every search that did not raise are in the merged list, a merged list with
\* chunks goes on to the context, and unless get_embedding failed every search
\* was run
C22_FailedSearchContributesNothing ==
    SearchesOver =>
        /\ \A t \in {"cluster", "bm25", "entity"} :
              t \in search_failed => FromSearch(merged, t) = <<>>
        /\ "embedding" \notin search_failed =>
              /\ {completed[i] : i \in 1..Len(completed)} = TaskNames
              /\ \A t \in TaskNames \ search_failed :
                    FromSearch(merged, t)
                        = ChunkTexts(NotMatched(Found(t), MatchedIds(vector_chunks)), t)
              /\ "vector" \notin search_failed =>
                    FromSearch(merged, "vector") = ChunkTexts(table_hits.vector, "vector")
              /\ merged # <<>> => search_pc = "merged"
        /\ "embedding" \in search_failed => completed = <<>> /\ merged = <<>>

\* a call whose BM25 search raised although the table had hits for it, and
\* whose merged list has the chunks of the vector and of the cluster search
C22_Witness ==
    /\ search_pc = "merged"
    /\ "bm25" \in search_failed
    /\ table_hits.bm25 # {}
    /\ FromSearch(merged, "vector") # <<>>
    /\ FromSearch(merged, "cluster") # <<>>

\* C23: the merged list is the vector results, then the cluster results, then
\* the BM25 results, then the entity results, each as its search returned it
C23_MergedInSearchOrder ==
    SearchesOver =>
        merged = vector_chunks \o ResultOf("cluster") \o ResultOf("bm25") \o ResultOf("entity")

\* a call whose BM25 search finished before its cluster search, both with chunks
C23_Witness ==
    /\ search_pc = "merged"
    /\ Len(completed) >= 2
    /\ completed[1] = "bm25"
    /\ ResultOf("cluster") # <<>>
    /\ ResultOf("bm25") # <<>>

\* C24: the stored context metadata hold every topic, entity and regulation
\* the calls on the session were given, once each, and the last
\* KeyPointsKept key points in the order they came
C24_MetadataIsUnionOfCalls ==
    /\ context_metadata.topics = supplied.topics
    /\ context_metadata.entities = supplied.entities
    /\ context_metadata.regulations = supplied.regulations
    /\ context_metadata.key_points = Last(supplied.key_points, KeyPointsKept)

\* the chunks emitted for article a of the document
ChunksOf(a) == SelectSeq(final_chunks, LAMBDA c : c.article = a)

RECURSIVE AllParagraphs(_)
AllParagraphs(chunks) ==
    IF chunks = <<>> THEN <<>> ELSE Head(chunks).paragraphs \o AllParagraphs(Tail(chunks))

\* C25: with article subdivision disabled, every article of the document is
\* emitted as exactly one chunk, whatever its length
C25_OneChunkPerArticle ==
    ~ALLOW_ARTICLE_SUBDIVISION =>
        \A a \in 1..Len(document) : Len(ChunksOf(a)) = 1

\* C30: the sub-chunks of a subdivided article hold every paragraph of the
\* article once, in the order of the document
C30_SubChunksHoldEveryParagraph ==
    \A a \in 1..Len(document) :
        ContentLen(document[a]) > chunk_size =>
            AllParagraphs(ChunksOf(a)) = [i \in 1..Len(document[a]) |-> i]

\* C27: when optimized_prepare_chunk_data returns, chunk_embeddings holds one
\* embedding for each chunk, in the order of the chunks
C27_OneEmbeddingPerChunk ==
    embed.pc = "returned" =>
        /\ Len(chunk_embeddings) = embed.chunks
        /\ \A k \in 1..Len(chunk_embeddings) : chunk_embeddings[k].chunk = k

C29_UsesOwnQueryInfo ==
    \A r \in Reqs : tool[r].active => tool[r].query_info \in {r, "None"}

\* every checkpoint that is not ingested is one resume picks up
C28_PickedUp ==
    cmd = "none" =>
        \A d \in Docs : (ckpt[d].exists /\ ~ckpt[d].ingested) => Incomplete(ckpt[d])

\* a resume in which no operation failed leaves the checkpoints it picked up
\* ingested
C28_Completed ==
    (cmd = "none" /\ lastDone = "resume" /\ \A d \in Docs : ~fault[d]) =>
        \A d \in Docs : resumeStage[d] # "none" => ckpt[d].ingested

\* C28: a checkpoint that is not ingested, at whatever stage and with or
\* without an error of an earlier run, is picked up by resume, and a resume
\* whose operations all succeed leaves it with ingested = true
C28_ResumeCompletesEveryCheckpoint == C28_PickedUp /\ C28_Completed

\* what get is to return for a key: the response of the last set of the key,
\* unless the entry was evicted since or its time to live is over
StoredResponse(k) ==
    IF /\ cache_sets[k].set
       /\ ~cache_sets[k].evicted
       /\ now <= cache_sets[k].at + cache_sets[k].ttl
    THEN cache_sets[k].response
    ELSE "None"

GetStep == hits' + misses' = hits + misses + 1

\* C18: a call of get returns the response stored by the last set under the
\* normalized key exactly when that entry is neither expired nor evicted, and
\* None otherwise; a call that returns the response counts as a hit, a call
\* that returns None counts as a miss and leaves no entry under the key
C18_GetReturnsLiveEntry ==
    [][GetStep =>
        /\ last_get'.result = StoredResponse(last_get'.key)
        /\ last_get'.result # "None" => hits' = hits + 1
        /\ last_get'.result = "None" =>
              /\ misses' = misses + 1
              /\ cache_sets[last_get'.key].set => last_get'.key \notin KeysOf(response_cache')
       ]_vars

\* a lookup found an expired entry: it gave None and the entry is gone
C18_Witness ==
    /\ misses > 0
    /\ last_get.key \in CacheKeys
    /\ last_get.result = "None"
    /\ cache_sets[last_get.key].set
    /\ ~cache_sets[last_get.key].evicted
    /\ last_get.key \notin KeysOf(response_cache)

\* a set of a key that is not in the cache, when the cache is full
EvictingSet ==
    /\ sets' = sets + 1
    /\ Len(response_cache) >= max_size
    /\ KeysOf(response_cache') \ KeysOf(response_cache) # {}

\* C19 as stated: the entry evicted is the least recently used one, the one
\* whose most recent get or set is the oldest
C19_EvictsLeastRecentlyUsed ==
    [][EvictingSet => Lost(response_cache, response_cache') = {Head(cache_recency)}]_vars

\* C19 amended: the entry evicted is one stored longest ago, whatever was
\* read since: no entry of the cache has an older cached_at
C19_EvictsOldestStored ==
    [][EvictingSet =>
        \E k \in KeysOf(response_cache) :
            /\ Lost(response_cache, response_cache') = {k}
            /\ \A i \in 1..Len(response_cache) :
                  response_cache[i].cached_at >= cache_sets[k].at
       ]_vars

\* an entry was served by a get and was evicted afterwards
C19_Witness ==
    /\ hits > 0
    /\ last_get.key \in CacheKeys
    /\ last_get.result # "None"
    /\ cache_sets[last_get.key].evicted
====
